---- MODULE Spec2Model ----
(***************************************************************************)
(* Zenalyst analytics API: the services (ranking, revenue share, filter    *)
(* and paginate, statistics), the response helpers and the request chain   *)
(* sanitizeQuery -> controller -> service, over the MongoDB collections.   *)
(*                                                                         *)
(* JavaScript values are tagged records: [t |-> "string", v |-> chars],    *)
(* [t |-> "number", v |-> integer], [t |-> "boolean", v |-> b],            *)
(* [t |-> "undefined"], [t |-> "null"], [t |-> "NaN"].  Computed fractions *)
(* (percentages) are exact rationals [t |-> "real", n |-> num, d |-> den]  *)
(* in lowest terms, next to [t |-> "NaN"] and [t |-> "Infinity"].          *)
(***************************************************************************)
EXTENDS Integers, Sequences, FiniteSets

\* ------------------------------------------------------------------ bounds
MaxLen == 3
MaxLimit == 4
MaxPage == 3

\* ------------------------------------------------------- JavaScript values
Undefined == [t |-> "undefined"]
Null == [t |-> "null"]
NaN == [t |-> "NaN"]
Infinity == [t |-> "Infinity"]
NegInfinity == [t |-> "-Infinity"]
Num(n) == [t |-> "number", v |-> n]
Str(s) == [t |-> "string", v |-> s]
Bool(b) == [t |-> "boolean", v |-> b]

Abs(n) == IF n < 0 THEN -n ELSE n
Min(a, b) == IF a < b THEN a ELSE b
Max(a, b) == IF a > b THEN a ELSE b

RECURSIVE GCD(_, _)
GCD(a, b) == IF b = 0 THEN a ELSE GCD(b, a % b)

\* the rational n/d (d # 0) in lowest terms with a positive denominator
Real(n, d) ==
    LET g == GCD(Abs(n), Abs(d))
        s == IF d < 0 THEN -1 ELSE 1
    IN  [t |-> "real", n |-> (s * n) \div g, d |-> (s * d) \div g]

\* a / b on two integers, as IEEE division does it for a zero divisor
JsDivide(a, b) ==
    IF b # 0 THEN Real(a, b)
    ELSE IF a = 0 THEN NaN
    ELSE IF a > 0 THEN Infinity ELSE NegInfinity

\* x * k for an integer k > 0
JsTimes(x, k) == IF x.t = "real" THEN Real(x.n * k, x.d) ELSE x

\* ToBoolean
Truthy(x) ==
    CASE x.t = "string" -> x.v # <<>>
      [] x.t = "number" -> x.v # 0
      [] x.t = "boolean" -> x.v
      [] OTHER -> FALSE

\* a || b
Or(a, b) == IF Truthy(a) THEN a ELSE b

\* (x || 0) for a document field that is a number or missing/null
OrZero(x) == IF x.t = "number" THEN x.v ELSE 0

\* ------------------------------------------------------ strings and parsing
DigitChars == {"0", "1", "2", "3", "4", "5", "6", "7", "8", "9"}

DigitVal(c) ==
    CASE c = "0" -> 0 [] c = "1" -> 1 [] c = "2" -> 2 [] c = "3" -> 3
      [] c = "4" -> 4 [] c = "5" -> 5 [] c = "6" -> 6 [] c = "7" -> 7
      [] c = "8" -> 8 [] c = "9" -> 9

DigitChar(n) ==
    CASE n = 0 -> "0" [] n = 1 -> "1" [] n = 2 -> "2" [] n = 3 -> "3"
      [] n = 4 -> "4" [] n = 5 -> "5" [] n = 6 -> "6" [] n = 7 -> "7"
      [] n = 8 -> "8" [] n = 9 -> "9"

RECURSIVE NatToChars(_)
NatToChars(n) ==
    IF n < 10 THEN <<DigitChar(n)>>
    ELSE Append(NatToChars(n \div 10), DigitChar(n % 10))

\* String(x): what parseInt/parseFloat read when handed a non-string
JsString(x) ==
    CASE x.t = "string" -> x.v
      [] x.t = "number" -> IF x.v < 0 THEN <<"-">> \o NatToChars(-x.v)
                                       ELSE NatToChars(x.v)
      [] x.t = "boolean" -> IF x.v THEN <<"t", "r", "u", "e">>
                                   ELSE <<"f", "a", "l", "s", "e">>
      [] x.t = "undefined" -> <<"u", "n", "d", "e", "f", "i", "n", "e", "d">>
      [] x.t = "null" -> <<"n", "u", "l", "l">>
      [] OTHER -> <<"N", "a", "N">>

RECURSIVE TrimLeft(_)
TrimLeft(s) == IF s # <<>> /\ Head(s) = " " THEN TrimLeft(Tail(s)) ELSE s

\* length of the longest prefix of s made of decimal digits
RECURSIVE DigitPrefixLen(_)
DigitPrefixLen(s) ==
    IF s # <<>> /\ Head(s) \in DigitChars THEN 1 + DigitPrefixLen(Tail(s)) ELSE 0

RECURSIVE DigitsToNat(_)
DigitsToNat(s) ==
    IF s = <<>> THEN 0
    ELSE 10 * DigitsToNat(SubSeq(s, 1, Len(s) - 1)) + DigitVal(s[Len(s)])

\* parseInt(x) in radix 10: leading blanks, an optional sign, then the longest
\* run of digits; NaN when there is no digit
parseInt(x) ==
    LET s == TrimLeft(JsString(x))
        signed == s # <<>> /\ Head(s) \in {"-", "+"}
        neg == s # <<>> /\ Head(s) = "-"
        body == IF signed THEN Tail(s) ELSE s
        k == DigitPrefixLen(body)
    IN  IF k = 0 THEN NaN
        ELSE Num((IF neg THEN -1 ELSE 1) * DigitsToNat(SubSeq(body, 1, k)))

\* parseFloat(x) on text without a decimal point or exponent (the request
\* values drawn below have none in minQ4Revenue): sign and digit run
parseFloat(x) ==
    LET s == TrimLeft(JsString(x))
        signed == s # <<>> /\ Head(s) \in {"-", "+"}
        neg == s # <<>> /\ Head(s) = "-"
        body == IF signed THEN Tail(s) ELSE s
        k == DigitPrefixLen(body)
    IN  IF k = 0 THEN NaN
        ELSE Num((IF neg THEN -1 ELSE 1) * DigitsToNat(SubSeq(body, 1, k)))

\* ------------------------------------------------------------ array helpers
\* Array.prototype.slice(start, end) with negative indices counted from the end
JsSlice(s, start, end) ==
    LET len == Len(s)
        from == IF start < 0 THEN Max(len + start, 0) ELSE Min(start, len)
        to == IF end < 0 THEN Max(len + end, 0) ELSE Min(end, len)
    IN  SubSeq(s, from + 1, to)

RECURSIVE SumSeq(_)
SumSeq(s) == IF s = <<>> THEN 0 ELSE Head(s) + SumSeq(Tail(s))

\* position at which Array.prototype.sort (stable) puts key k into the
\* already sorted keys ks, comparator (a, b) => b - a: after every key >= k
RECURSIVE InsertPos(_, _)
InsertPos(ks, k) ==
    IF ks = <<>> THEN 0
    ELSE IF ks[Len(ks)] >= k THEN Len(ks)
    ELSE InsertPos(SubSeq(ks, 1, Len(ks) - 1), k)

\* Array.prototype.sort((a, b) => key(b) - key(a)) on the documents docs whose
\* keys are keys: descending, stable
RECURSIVE SortDesc(_, _)
SortDesc(docs, keys) ==
    IF docs = <<>> THEN [docs |-> <<>>, keys |-> <<>>]
    ELSE LET n == Len(docs)
             prev == SortDesc(SubSeq(docs, 1, n - 1), SubSeq(keys, 1, n - 1))
             p == InsertPos(prev.keys, keys[n])
         IN  [docs |-> SubSeq(prev.docs, 1, p) \o <<docs[n]>>
                           \o SubSeq(prev.docs, p + 1, n - 1),
              keys |-> SubSeq(prev.keys, 1, p) \o <<keys[n]>>
                           \o SubSeq(prev.keys, p + 1, n - 1)]

\* ------------------------------------------------- responseHandler helpers
RECURSIVE Pow10(_)
Pow10(k) == IF k = 0 THEN 1 ELSE 10 * Pow10(k - 1)

\* Math.round on a rational: the nearest integer, a tie going towards +infinity
MathRound(x) == (2 * x.n + x.d) \div (2 * x.d)

\* Math.ceil on the result of a division
MathCeil(x) == IF x.t = "real" THEN Num(-((-x.n) \div x.d)) ELSE x

\* roundToDecimals that ignores decimals and rounds to a whole number
roundToDecimals_Whole(value, decimals) ==
    IF value.t \in {"null", "undefined"} THEN Real(0, 1)
    ELSE IF value.t = "real" THEN Real(MathRound(value), 1)
         ELSE value

\* transformData.roundToDecimals
roundToDecimals(value, decimals) ==
    IF value.t \in {"null", "undefined"} THEN Real(0, 1)
    ELSE IF value.t = "real"
         THEN Real(MathRound(Real(value.n * Pow10(decimals), value.d)), Pow10(decimals))
         ELSE value

\* Number.prototype.toFixed(2) as text: the magnitude is rounded to hundredths,
\* a tie going up, and the sign is put in front
ToFixed2(x) ==
    LET mag == Real(Abs(x.n) * 100, x.d)
        h == MathRound(mag)
        frac == h % 100
    IN  (IF x.n < 0 THEN <<"-">> ELSE <<>>)
            \o NatToChars(h \div 100) \o <<".">>
            \o <<DigitChar(frac \div 10), DigitChar(frac % 10)>>

\* transformData.formatPercentage
formatPercentage(value) ==
    IF value.t \in {"null", "undefined"} THEN <<"0", ".", "0", "0", "%">>
    ELSE IF value.t = "real" THEN ToFixed2(value) \o <<"%">>
    ELSE JsString(value) \o <<"%">>

\* ----------------------------------------------- binary64 (double) values
\* The class percentages of getCustomerStatistics are returned unrounded, so
\* they are kept as the doubles JavaScript computes: [t |-> "double", limbs
\* |-> l], l a fixed-point numeral in base 2^LimbBits, most significant limb
\* first: one limb before the binary point and FracLimbs after it.  The layout
\* holds 0 and every double in [2^-11, 2^16) exactly.
LimbBits == 16
LimbBase == 65536
FracLimbs == 4
Mantissa == 53

Double(limbs) == [t |-> "double", limbs |-> limbs]
DoubleOfNat(n) == Double(<<n>> \o [i \in 1..FracLimbs |-> 0])

\* the first k limbs after the point of r / n, for 0 <= r < n < 2^15
RECURSIVE FractionLimbs(_, _, _)
FractionLimbs(r, n, k) ==
    IF k = 0 THEN <<>>
    ELSE <<(r * LimbBase) \div n>> \o FractionLimbs((r * LimbBase) % n, n, k - 1)

\* what is left of r / n after those k limbs
RECURSIVE FractionRest(_, _, _)
FractionRest(r, n, k) ==
    IF k = 0 THEN r ELSE FractionRest((r * LimbBase) % n, n, k - 1)

\* a + b + c on numerals of one length, c the carry in
RECURSIVE LimbAdd(_, _, _)
LimbAdd(a, b, c) ==
    IF a = <<>> THEN <<>>
    ELSE LET n == Len(a)
             sum == a[n] + b[n] + c
         IN  Append(LimbAdd(SubSeq(a, 1, n - 1), SubSeq(b, 1, n - 1), sum \div LimbBase),
                    sum % LimbBase)

\* a * k + c for a small factor k, c the carry in
RECURSIVE LimbTimes(_, _, _)
LimbTimes(a, k, c) ==
    IF a = <<>> THEN <<>>
    ELSE LET n == Len(a)
             prod == a[n] * k + c
         IN  Append(LimbTimes(SubSeq(a, 1, n - 1), k, prod \div LimbBase),
                    prod % LimbBase)

\* a <= b on numerals of one length
RECURSIVE LimbLeq(_, _)
LimbLeq(a, b) ==
    IF a = <<>> THEN TRUE
    ELSE IF Head(a) # Head(b) THEN Head(a) < Head(b)
    ELSE LimbLeq(Tail(a), Tail(b))

\* bit i of a numeral, bit 1 the most significant
BitAt(limbs, i) ==
    (limbs[((i - 1) \div LimbBits) + 1] \div (2 ^ (LimbBits - 1 - ((i - 1) % LimbBits)))) % 2

\* position of the leading 1 bit, 0 when there is none
LeadingOne(limbs) ==
    LET ones == {i \in 1..(LimbBits * Len(limbs)) : BitAt(limbs, i) = 1}
    IN  IF ones = {} THEN 0 ELSE CHOOSE i \in ones : \A j \in ones : i <= j

\* round to nearest, ties to even, to Mantissa significant bits; sticky says
\* that the exact value has non-zero bits beyond the numeral
RoundToDouble(limbs, sticky) ==
    LET n == LimbBits * Len(limbs)
        last == LeadingOne(limbs) + Mantissa - 1
        at == ((last - 1) \div LimbBits) + 1
        unit == 2 ^ (LimbBits * at - last)
    IN  IF LeadingOne(limbs) = 0 \/ last >= n THEN limbs
        ELSE LET rest == sticky \/ \E i \in (last + 2)..n : BitAt(limbs, i) = 1
                 up == BitAt(limbs, last + 1) = 1 /\ (rest \/ BitAt(limbs, last) = 1)
                 kept == [j \in 1..Len(limbs) |->
                             IF j < at THEN limbs[j]
                             ELSE IF j = at THEN limbs[j] - (limbs[j] % unit)
                             ELSE 0]
                 ulp == [j \in 1..Len(limbs) |-> IF j = at THEN unit ELSE 0]
             IN  IF up THEN LimbAdd(kept, ulp, 0) ELSE kept

\* a / n in double arithmetic, for integers 0 <= a and 0 < n
DoubleDivide(a, n) ==
    Double(RoundToDouble(<<a \div n>> \o FractionLimbs(a % n, n, FracLimbs),
                         FractionRest(a % n, n, FracLimbs) # 0))

\* x * 100 in double arithmetic
DoubleTimes100(x) == Double(RoundToDouble(LimbTimes(x.limbs, 100, 0), FALSE))

\* ------------------------------------------------------------------ MongoDB
\* An error message is the sequence of its words.
Return(v) == [ok |-> TRUE, error |-> <<>>, value |-> v]

\* a catch block that logs the error and returns nothing
Throw_Swallowed(msg) == [ok |-> TRUE, error |-> <<>>, value |-> <<>>]

Throw(msg) == [ok |-> FALSE, error |-> msg, value |-> <<>>]

\* the message of a failed connection to the data store
FetchFailed == <<"connect", "ECONNREFUSED">>

\* the error of a fetch: none when the store is up
FetchError(up) == IF up THEN <<>> ELSE FetchFailed

\* error.message.includes('not found') holding of every error
IncludesNotFound_Any(msg) == msg # <<>>

\* message.includes('not found')
IncludesNotFound(msg) ==
    \E i \in 1..(Len(msg) - 1) : msg[i] = "not" /\ msg[i + 1] = "found"

\* the orders in which the storage engine may hand out n documents
Permutations(n) ==
    {p \in [1..n -> 1..n] : \A i, j \in 1..n : i # j => p[i] # p[j]}

\* a fetch that fails returns no documents, so no order is chosen for it
Orders(up, n) == IF up THEN Permutations(n) ELSE {[i \in 1..n |-> i]}

ApplyPerm(docs, p) == [i \in 1..Len(docs) |-> docs[p[i]]]

IsNumber(x) == x.t = "number"

\* cursor.sort({field: -1}): numbers in descending order, then the documents
\* whose field is null or missing (null is the lowest BSON value); documents
\* with equal keys come in the order tie, which the server is free to choose
MongoSortDesc(docs, tie, field) ==
    LET arranged == ApplyPerm(docs, tie)
        HasNum(d) == IsNumber(d[field])
        HasNoNum(d) == ~IsNumber(d[field])
        nums == SelectSeq(arranged, HasNum)
        rest == SelectSeq(arranged, HasNoNum)
    IN  SortDesc(nums, [i \in 1..Len(nums) |-> nums[i][field].v]).docs \o rest

\* cursor.skip(skip).limit(limit).toArray(): the server rejects a negative
\* skip; limit 0 means no limit; the driver sends a negative limit as its
\* absolute value
MongoSkipLimit(docs, skip, limit) ==
    IF skip < 0 THEN Throw(<<"Skip", "value", "must", "be", "non-negative">>)
    ELSE LET rest == SubSeq(docs, skip + 1, Len(docs))
         IN  Return(IF limit = 0 THEN rest
                    ELSE SubSeq(rest, 1, Min(Abs(limit), Len(rest))))

\* $gte taken as a strict comparison
MongoGte_Strict(x, bound) == x.t = "number" /\ x.v > bound

\* {field: {$gte: bound}} and {field: {$gt: bound}}: only numbers match
MongoGte(x, bound) == IsNumber(x) /\ x.v >= bound
MongoGt(x, bound) == IsNumber(x) /\ x.v > bound

\* ----------------------------------------------------------------- services
\* The formatted* currency strings of the results and the copy of the stored
\* Percentage of Variance are presentation only and are left out; every other
\* field of a result is kept.  up is FALSE when the
\* data fetch (getCollection or the query) fails; all is the collection in
\* natural order; tie is the order the server gives to equal sort keys.

\* countriesService.getTopCountriesByRevenue
countriesService_getTopCountriesByRevenue(up, all, tie, limit) ==
    IF ~up THEN Throw(FetchFailed)
    ELSE LET cursor == MongoSkipLimit(MongoSortDesc(all, tie, "YearlyRevenue"), 0, limit)
             Row(c) == [countryName |-> c.Country,
                        yearlyRevenue |-> OrZero(c.YearlyRevenue)]
         IN  Return([i \in 1..Len(cursor.value) |-> Row(cursor.value[i])])

\* the percentage expression without its totalRevenue > 0 guard
SharePercentage_Unguarded(revenue, totalRevenue) ==
    JsTimes(JsDivide(revenue, totalRevenue), 100)

\* percentage expression of getRevenueShareByCountry and getRegionsSummary
SharePercentage(revenue, totalRevenue) ==
    IF totalRevenue > 0 THEN JsTimes(JsDivide(revenue, totalRevenue), 100)
    ELSE Real(0, 1)

\* allCountries.sort(...) sorts the array in place and returns it
SortedInPlace(all) ==
    SortDesc(all, [i \in 1..Len(all) |-> OrZero(all[i].YearlyRevenue)]).docs

\* what slice(limit) would read if the sort had been made on a copy
OthersSource_Unsorted(all) == all

\* the array that allCountries.slice(limit) reads for the Others entry
OthersSource(all) == SortedInPlace(all)

\* countriesService.getRevenueShareByCountry
countriesService_getRevenueShareByCountry(up, all, limit) ==
    IF ~up THEN Throw(FetchFailed)
    ELSE LET Revenue(c) == OrZero(c.YearlyRevenue)
             totalRevenue == SumSeq([i \in 1..Len(all) |-> Revenue(all[i])])
             topCountries == JsSlice(SortedInPlace(all), 0, limit)
             Entry(name, revenue) ==
                 [countryName |-> name,
                  revenue |-> revenue,
                  percentage |-> roundToDecimals(SharePercentage(revenue, totalRevenue), 2),
                  formattedPercentage |->
                      formatPercentage(SharePercentage(revenue, totalRevenue))]
             Row(c) == Entry(c.Country, Revenue(c))
             result == [i \in 1..Len(topCountries) |-> Row(topCountries[i])]
             others == JsSlice(OthersSource(all), limit, Len(all))
             othersRevenue == SumSeq([i \in 1..Len(others) |-> Revenue(others[i])])
         IN  Return(IF Len(all) > limit
                    THEN Append(result, Entry("Others", othersRevenue))
                    ELSE result)

\* regionsService.getRegionsSummary
regionsService_getRegionsSummary(up, regions) ==
    IF ~up THEN Throw(FetchFailed)
    ELSE LET Revenue(r) == OrZero(r.YearlyRevenue)
             totalRevenue == SumSeq([i \in 1..Len(regions) |-> Revenue(regions[i])])
             WithData(r) == r.YearlyRevenue # Null
             Row(r) == [regionName |-> r.Region,
                        revenue |-> Revenue(r),
                        percentage |-> SharePercentage(Revenue(r), totalRevenue),
                        formattedPercentage |->
                            formatPercentage(SharePercentage(Revenue(r), totalRevenue))]
         IN  Return([totalRegions |-> Len(regions),
                     regionsWithData |-> Len(SelectSeq(regions, WithData)),
                     totalRevenue |-> totalRevenue,
                     regions |-> [i \in 1..Len(regions) |-> Row(regions[i])]])

\* customersService.getCustomerConcentration
customersService_getCustomerConcentration(up, all, tie, limit) ==
    IF ~up THEN Throw(FetchFailed)
    ELSE LET cursor == MongoSkipLimit(MongoSortDesc(all, tie, "TotalRevenue"), 0, limit)
             Row(c) == [customerName |-> c.CustomerName,
                        totalRevenue |-> OrZero(c.TotalRevenue)]
         IN  Return([i \in 1..Len(cursor.value) |-> Row(cursor.value[i])])

\* the record both revenueService and customersService build from a
\* quarterly_revenue document
CustomerRow(c) ==
    [customerName |-> c.CustomerName,
     q3Revenue |-> OrZero(c.Quarter3Revenue),
     q4Revenue |-> OrZero(c.Quarter4Revenue),
     variance |-> OrZero(c.Variance)]

\* revenueService.getTopGrowthCustomers
revenueService_getTopGrowthCustomers(up, all, tie, limit) ==
    IF ~up THEN Throw(FetchFailed)
    ELSE LET cursor == MongoSkipLimit(MongoSortDesc(all, tie, "Variance"), 0, limit)
         IN  Return([i \in 1..Len(cursor.value) |-> CustomerRow(cursor.value[i])])

\* the class percentage cut to a whole number
ClassPercentage_Truncated(count, totalCustomers) ==
    DoubleOfNat(IF totalCustomers > 0 THEN (count * 100) \div totalCustomers ELSE 0)

\* class percentage of getCustomerStatistics
ClassPercentage(count, totalCustomers) ==
    IF totalCustomers > 0 THEN DoubleTimes100(DoubleDivide(count, totalCustomers))
    ELSE DoubleOfNat(0)

\* customersService.getCustomerStatistics
customersService_getCustomerStatistics(up, allCustomers) ==
    IF ~up THEN Throw(FetchFailed)
    ELSE LET totalCustomers == Len(allCustomers)
             Growth(c) == OrZero(c.Variance) > 0
             Decline(c) == OrZero(c.Variance) < 0
             NoChange(c) == OrZero(c.Variance) = 0
             customersWithGrowth == Len(SelectSeq(allCustomers, Growth))
             customersWithDecline == Len(SelectSeq(allCustomers, Decline))
             customersNoChange == Len(SelectSeq(allCustomers, NoChange))
             Q3(c) == OrZero(c.Quarter3Revenue)
             Q4(c) == OrZero(c.Quarter4Revenue)
         IN  Return([totalCustomers |-> totalCustomers,
                     customersWithGrowth |-> customersWithGrowth,
                     customersWithDecline |-> customersWithDecline,
                     customersNoChange |-> customersNoChange,
                     growthPercentage |-> ClassPercentage(customersWithGrowth, totalCustomers),
                     declinePercentage |-> ClassPercentage(customersWithDecline, totalCustomers),
                     noChangePercentage |-> ClassPercentage(customersNoChange, totalCustomers),
                     totalQ3Revenue |->
                         SumSeq([i \in 1..Len(allCustomers) |-> Q3(allCustomers[i])]),
                     totalQ4Revenue |->
                         SumSeq([i \in 1..Len(allCustomers) |-> Q4(allCustomers[i])])])

\* the query object built from the filters: hasQ4 when minQ4Revenue > 0,
\* hasVariance when positiveGrowthOnly is truthy
BuildQuery(filters) ==
    [hasQ4 |-> filters.minQ4Revenue > 0,
     gte |-> filters.minQ4Revenue,
     hasVariance |-> filters.positiveGrowthOnly]

\* does the document match the query
MongoMatches(doc, query) ==
    /\ query.hasQ4 => MongoGte(doc.Quarter4Revenue, query.gte)
    /\ query.hasVariance => MongoGt(doc.Variance, 0)

MongoFilter(docs, query) ==
    LET Hit(d) == MongoMatches(d, query) IN SelectSeq(docs, Hit)

\* collection.countDocuments(query)
MongoCount(docs, query) == Len(MongoFilter(docs, query))

\* the label with an unchanged variance counted as growth
growthStatus_NonNegative(c) ==
    IF OrZero(c.Variance) >= 0 THEN "positive"
    ELSE IF OrZero(c.Variance) < 0 THEN "negative" ELSE "neutral"

growthStatus(c) ==
    IF OrZero(c.Variance) > 0 THEN "positive"
    ELSE IF OrZero(c.Variance) < 0 THEN "negative" ELSE "neutral"

\* const skip = (page - 1) * limit
SkipFor(page, limit) == (page - 1) * limit

\* the body shared by getCustomerAnalysis and getCustomerQuarterlyData, which
\* differ in the sort field and in the row they build: countDocuments(query),
\* then find(query).sort().skip().limit(); customers are the documents found
\* counted is the collection as countDocuments finds it, all the collection as
\* find finds it
FilterAndPaginateOver(up, counted, all, tie, filters, sortField) ==
    IF ~up THEN Throw(FetchFailed)
    ELSE LET query == BuildQuery(filters)
             skip == SkipFor(filters.page, filters.limit)
             total == MongoCount(counted, query)
             matching == MongoFilter(ApplyPerm(all, tie), query)
             identity == [i \in 1..Len(matching) |-> i]
             cursor == MongoSkipLimit(MongoSortDesc(matching, identity, sortField),
                                      skip, filters.limit)
         IN  IF ~cursor.ok THEN cursor
             ELSE Return([customers |-> cursor.value,
                          pagination |->
                              [currentPage |-> filters.page,
                               totalPages |-> MathCeil(JsDivide(total, filters.limit)),
                               totalItems |-> total,
                               itemsPerPage |-> filters.limit]])

\* the two driver calls of a request that nothing else interleaves with
FilterAndPaginate(up, all, tie, filters, sortField) ==
    FilterAndPaginateOver(up, all, all, tie, filters, sortField)

AnalysisRow(c) ==
    [customerName |-> c.CustomerName,
     q3Revenue |-> OrZero(c.Quarter3Revenue),
     q4Revenue |-> OrZero(c.Quarter4Revenue),
     variance |-> OrZero(c.Variance),
     growthStatus |-> growthStatus(c)]

\* customersService.getCustomerAnalysis: the result also echoes the filters
AnalysisResult(r, filters) ==
    LET found == r.value.customers
    IN  IF ~r.ok THEN r
        ELSE Return([customers |-> [i \in 1..Len(found) |-> AnalysisRow(found[i])],
                     pagination |-> r.value.pagination,
                     filters |-> [minQ4Revenue |-> filters.minQ4Revenue,
                                  positiveGrowthOnly |-> filters.positiveGrowthOnly]])

customersService_getCustomerAnalysis(up, all, tie, filters) ==
    AnalysisResult(FilterAndPaginate(up, all, tie, filters, "Quarter4Revenue"),
                   filters)

\* revenueService.getCustomerQuarterlyData
QuarterlyResult(r) ==
    LET found == r.value.customers
    IN  IF ~r.ok THEN r
        ELSE Return([customers |-> [i \in 1..Len(found) |-> CustomerRow(found[i])],
                     pagination |-> r.value.pagination])

revenueService_getCustomerQuarterlyData(up, all, tie, filters) ==
    QuarterlyResult(FilterAndPaginate(up, all, tie, filters, "Variance"))

\* collection.findOne({field: name}): the first document carrying the name,
\* Null when there is none
FindOne(all, field, name) ==
    LET hits == {i \in 1..Len(all) : all[i][field] = name}
    IN  IF hits = {} THEN Null
        ELSE all[CHOOSE i \in hits : \A j \in hits : i <= j]

\* `${kind} '${name}' not found`
NotFoundMessage(kind, name) == <<kind, name, "not", "found">>

\* countriesService.getAllCountries
countriesService_getAllCountries(up, all, tie) ==
    IF ~up THEN Throw(FetchFailed)
    ELSE LET sorted == MongoSortDesc(all, tie, "YearlyRevenue")
         IN  Return([i \in 1..Len(sorted) |->
                        [countryName |-> sorted[i].Country,
                         yearlyRevenue |-> OrZero(sorted[i].YearlyRevenue)]])

\* countriesService.getCountryByName; failure is the message of the failed
\* fetch, <<>> when the fetch works
countriesService_getCountryByName(failure, all, countryName) ==
    IF failure # <<>> THEN Throw(failure)
    ELSE LET country == FindOne(all, "Country", countryName)
         IN  IF country = Null THEN Throw(NotFoundMessage("Country", countryName))
             ELSE Return([countryName |-> country.Country,
                          yearlyRevenue |-> OrZero(country.YearlyRevenue)])

\* regionsService.getAllRegions
regionsService_getAllRegions(up, all, tie) ==
    IF ~up THEN Throw(FetchFailed)
    ELSE LET sorted == MongoSortDesc(all, tie, "YearlyRevenue")
         IN  Return([i \in 1..Len(sorted) |->
                        [regionName |-> sorted[i].Region,
                         yearlyRevenue |-> OrZero(sorted[i].YearlyRevenue)]])

\* regionsService.getRegionByName
regionsService_getRegionByName(failure, all, regionName) ==
    IF failure # <<>> THEN Throw(failure)
    ELSE LET region == FindOne(all, "Region", regionName)
         IN  IF region = Null THEN Throw(NotFoundMessage("Region", regionName))
             ELSE Return([regionName |-> region.Region,
                          yearlyRevenue |-> OrZero(region.YearlyRevenue)])

\* customersService.getCustomerByName
customersService_getCustomerByName(failure, all, customerName) ==
    IF failure # <<>> THEN Throw(failure)
    ELSE LET customer == FindOne(all, "CustomerName", customerName)
         IN  IF customer = Null THEN Throw(NotFoundMessage("Customer", customerName))
             ELSE Return(CustomerRow(customer))

\* revenueService.getRevenueSummary: findOne({}) on revenue_summary
revenueService_getRevenueSummary(up, summaries) ==
    IF ~up THEN Throw(FetchFailed)
    ELSE IF summaries = <<>> THEN Throw(<<"Revenue", "summary", "not", "found">>)
    ELSE Return([totalQ3Revenue |-> summaries[1].totalQ3Revenue,
                 totalQ4Revenue |-> summaries[1].totalQ4Revenue,
                 totalVariance |-> summaries[1].totalVariance])

\* { $sum: { $ifNull: ['$field', 0] } } over a collection
GroupSum(all, field) == SumSeq([i \in 1..Len(all) |-> OrZero(all[i][field])])

\* revenueService.getQuarterlyRevenue: $group with _id null gives no document
\* for an empty collection
revenueService_getQuarterlyRevenue(up, all) ==
    IF ~up THEN Throw(FetchFailed)
    ELSE IF all = <<>> THEN Return(<<>>)
    ELSE Return(<<[quarter |-> "Q3", revenue |-> GroupSum(all, "Quarter3Revenue")],
                  [quarter |-> "Q4", revenue |-> GroupSum(all, "Quarter4Revenue")]>>)

\* getRevenueBridgeData that returns the stored sums with their signs
revenueService_getRevenueBridgeData_Signed(up, all, limit) ==
    IF ~up THEN Throw(FetchFailed)
    ELSE IF all = <<>> THEN Return(<<>>)
    ELSE Return(<<[category |-> "New Revenue", type |-> "positive",
                   amount |-> GroupSum(all, "NewRevenue")],
                  [category |-> "Expansion Revenue", type |-> "positive",
                   amount |-> GroupSum(all, "ExpansionRevenue")],
                  [category |-> "Churned Revenue", type |-> "negative",
                   amount |-> GroupSum(all, "ChurnedRevenue")],
                  [category |-> "Contraction Revenue", type |-> "negative",
                   amount |-> GroupSum(all, "ContractionRevenue")]>>)

\* revenueService.getRevenueBridgeData: limit is not used
revenueService_getRevenueBridgeData(up, all, limit) ==
    IF ~up THEN Throw(FetchFailed)
    ELSE IF all = <<>> THEN Return(<<>>)
    ELSE Return(<<[category |-> "New Revenue", type |-> "positive",
                   amount |-> GroupSum(all, "NewRevenue")],
                  [category |-> "Expansion Revenue", type |-> "positive",
                   amount |-> GroupSum(all, "ExpansionRevenue")],
                  [category |-> "Churned Revenue", type |-> "negative",
                   amount |-> Abs(GroupSum(all, "ChurnedRevenue"))],
                  [category |-> "Contraction Revenue", type |-> "negative",
                   amount |-> Abs(GroupSum(all, "ContractionRevenue"))]>>)

\* analyticsService.getPredefinedPrompts: the ids of PREDEFINED_PROMPTS
analyticsService_getPredefinedPrompts == Return(<<1, 2, 3, 4, 5>>)

\* ------------------------------------------------------- response envelopes
\* successResponse
successResponse(statusCode, message, data) ==
    [status |-> statusCode, success |-> TRUE, message |-> message,
     data |-> data, pagination |-> Null, error |-> <<>>]

\* errorResponse
errorResponse(statusCode, message, error) ==
    [status |-> statusCode, success |-> FALSE, message |-> message,
     data |-> <<>>, pagination |-> Null, error |-> error]

\* res.status(statusCode).json(response) that writes nothing
ResJson_Unsent(sent, response) == sent

\* res.status(statusCode).json(response): the response goes to the client
ResJson(sent, response) == Append(sent, response.status)

\* what a builder sends from its catch block when json throws on the response
\* it built: successResponse a bare 500, paginatedResponse an errorResponse
JsonThrew(response) ==
    IF response.pagination # Null
    THEN errorResponse(500, "Error creating paginated response", <<>>)
    ELSE errorResponse(500, "Internal server error", <<>>)

\* hasNextPage computed as page !== totalPages
HasNextPage_NotEqual(page, totalPages) ==
    IF totalPages.t = "number" THEN page # totalPages.v
    ELSE TRUE

\* const hasNextPage = page < totalPages (false against NaN)
HasNextPage(page, totalPages) ==
    IF totalPages.t = "number" THEN page < totalPages.v
    ELSE totalPages.t = "Infinity"

\* paginatedResponse
paginatedResponse(data, page, limit, total, message) ==
    LET totalPages == MathCeil(JsDivide(total, limit))
        hasNextPage == HasNextPage(page, totalPages)
        hasPrevPage == page > 1
    IN  [status |-> 200, success |-> TRUE, message |-> message,
         data |-> data,
         pagination |-> [currentPage |-> page,
                         totalPages |-> totalPages,
                         totalItems |-> total,
                         itemsPerPage |-> limit,
                         hasNextPage |-> hasNextPage,
                         hasPrevPage |-> hasPrevPage,
                         nextPage |-> IF hasNextPage THEN Num(page + 1) ELSE Null,
                         prevPage |-> IF hasPrevPage THEN Num(page - 1) ELSE Null],
         error |-> <<>>]

\* --------------------------------------------------- middleware, controllers
TrueText == <<"t", "r", "u", "e">>

\* x === 'true'
IsTrueText(x) == x.t = "string" /\ x.v = TrueText

\* validation.sanitizeQuery: rewrites the parameters that are present
sanitizeQuery(query) ==
    [limit |-> IF Truthy(query.limit)
               THEN Or(parseInt(query.limit), Num(10)) ELSE query.limit,
     page |-> IF Truthy(query.page)
              THEN Or(parseInt(query.page), Num(1)) ELSE query.page,
     minQ4Revenue |-> IF Truthy(query.minQ4Revenue)
                      THEN Or(parseFloat(query.minQ4Revenue), Num(0))
                      ELSE query.minQ4Revenue,
     positiveGrowthOnly |-> IF Truthy(query.positiveGrowthOnly)
                            THEN Bool(IsTrueText(query.positiveGrowthOnly))
                            ELSE query.positiveGrowthOnly]

\* parseInt(req.query.limit) || fallback
LimitOf(query, fallback) == Or(parseInt(query.limit), Num(fallback)).v

\* what a controller leaves behind: the service call it made, the failure of
\* the fetch of that call (<<>> when the fetch worked or none was made), what
\* the call returned or threw, and the response
Outcome(op, args, failure, ret, response) ==
    [call |-> [op |-> op, args |-> args, failure |-> failure, ret |-> ret],
     res |-> response]

\* countriesController.getTopCountriesByRevenue
countriesController_getTopCountriesByRevenue(query, up, all, tie) ==
    LET limit == LimitOf(query, 10)
        ret == countriesService_getTopCountriesByRevenue(up, all, tie, limit)
    IN  Outcome("countriesService.getTopCountriesByRevenue", [limit |-> limit], FetchError(up), ret,
            IF ret.ok
            THEN successResponse(200, "Top countries by revenue retrieved successfully",
                                 ret.value)
            ELSE errorResponse(500, "Failed to retrieve top countries by revenue",
                               ret.error))

\* countriesController.getRevenueShareByCountry
countriesController_getRevenueShareByCountry(query, up, all) ==
    LET limit == LimitOf(query, 8)
        ret == countriesService_getRevenueShareByCountry(up, all, limit)
    IN  Outcome("countriesService.getRevenueShareByCountry", [limit |-> limit], FetchError(up), ret,
            IF ret.ok
            THEN successResponse(200, "Revenue share by country retrieved successfully",
                                 ret.value)
            ELSE errorResponse(500, "Failed to retrieve revenue share by country",
                               ret.error))

\* revenueController.getTopGrowthCustomers
revenueController_getTopGrowthCustomers(query, up, all, tie) ==
    LET limit == LimitOf(query, 10)
        ret == revenueService_getTopGrowthCustomers(up, all, tie, limit)
    IN  Outcome("revenueService.getTopGrowthCustomers", [limit |-> limit], FetchError(up), ret,
            IF ret.ok
            THEN successResponse(200, "Top growth customers retrieved successfully",
                                 ret.value)
            ELSE errorResponse(500, "Failed to retrieve top growth customers",
                               ret.error))

\* customersController.getCustomerConcentration
customersController_getCustomerConcentration(query, up, all, tie) ==
    LET limit == LimitOf(query, 20)
        ret == customersService_getCustomerConcentration(up, all, tie, limit)
    IN  Outcome("customersService.getCustomerConcentration", [limit |-> limit], FetchError(up), ret,
            IF ret.ok
            THEN successResponse(200, "Customer concentration data retrieved successfully",
                                 ret.value)
            ELSE errorResponse(500, "Failed to retrieve customer concentration data",
                               ret.error))

\* the filters object of customersController.getCustomerAnalysis
FiltersOf(query) ==
    [minQ4Revenue |-> Or(parseFloat(query.minQ4Revenue), Num(0)).v,
     positiveGrowthOnly |-> IsTrueText(query.positiveGrowthOnly),
     limit |-> LimitOf(query, 50),
     page |-> Or(parseInt(query.page), Num(1)).v]

\* customersController.getCustomerAnalysis
customersController_getCustomerAnalysis(query, up, all, tie) ==
    LET filters == FiltersOf(query)
        ret == customersService_getCustomerAnalysis(up, all, tie, filters)
    IN  Outcome("customersService.getCustomerAnalysis", filters, FetchError(up), ret,
            IF ret.ok
            THEN paginatedResponse(ret.value.customers,
                                   ret.value.pagination.currentPage,
                                   ret.value.pagination.itemsPerPage,
                                   ret.value.pagination.totalItems,
                                   "Customer analysis data retrieved successfully")
            ELSE errorResponse(500, "Failed to retrieve customer analysis data",
                               ret.error))

\* countriesController.getAllCountries
countriesController_getAllCountries(up, all, tie) ==
    LET ret == countriesService_getAllCountries(up, all, tie)
    IN  Outcome("countriesService.getAllCountries", <<>>, FetchError(up), ret,
            IF ret.ok
            THEN successResponse(200, "All countries retrieved successfully", ret.value)
            ELSE errorResponse(500, "Failed to retrieve countries", ret.error))

\* the catch block of a by-name controller
ByNameFailure(kind, msg) ==
    IF IncludesNotFound(msg)
    THEN errorResponse(404, kind \o " not found", msg)
    ELSE errorResponse(500, "Failed to retrieve " \o kind, msg)

\* countriesController.getCountryByName
countriesController_getCountryByName(params, failure, all) ==
    LET ret == countriesService_getCountryByName(failure, all, params.name)
    IN  Outcome("countriesService.getCountryByName", [name |-> params.name], failure, ret,
            IF ret.ok
            THEN successResponse(200, "Country retrieved successfully", ret.value)
            ELSE ByNameFailure("Country", ret.error))

\* customersController.getCustomerByName
customersController_getCustomerByName(params, failure, all) ==
    LET ret == customersService_getCustomerByName(failure, all, params.name)
    IN  Outcome("customersService.getCustomerByName", [name |-> params.name], failure, ret,
            IF ret.ok
            THEN successResponse(200, "Customer retrieved successfully", ret.value)
            ELSE ByNameFailure("Customer", ret.error))

\* regionsController.getRegionByName
regionsController_getRegionByName(params, failure, all) ==
    LET ret == regionsService_getRegionByName(failure, all, params.name)
    IN  Outcome("regionsService.getRegionByName", [name |-> params.name], failure, ret,
            IF ret.ok
            THEN successResponse(200, "Region retrieved successfully", ret.value)
            ELSE ByNameFailure("Region", ret.error))

\* customersController.getCustomerStatistics
customersController_getCustomerStatistics(up, all) ==
    LET ret == customersService_getCustomerStatistics(up, all)
    IN  Outcome("customersService.getCustomerStatistics", <<>>, FetchError(up), ret,
            IF ret.ok
            THEN successResponse(200, "Customer statistics retrieved successfully",
                                 ret.value)
            ELSE errorResponse(500, "Failed to retrieve customer statistics", ret.error))

\* regionsController.getAllRegions
regionsController_getAllRegions(up, all, tie) ==
    LET ret == regionsService_getAllRegions(up, all, tie)
    IN  Outcome("regionsService.getAllRegions", <<>>, FetchError(up), ret,
            IF ret.ok
            THEN successResponse(200, "All regions retrieved successfully", ret.value)
            ELSE errorResponse(500, "Failed to retrieve regions", ret.error))

\* regionsController.getRegionsRevenue
regionsController_getRegionsRevenue(up, all) ==
    LET ret == regionsService_getRegionsSummary(up, all)
    IN  Outcome("regionsService.getRegionsSummary", <<>>, FetchError(up), ret,
            IF ret.ok
            THEN successResponse(200, "Regions revenue summary retrieved successfully",
                                 ret.value)
            ELSE errorResponse(500, "Failed to retrieve regions revenue summary",
                               ret.error))

\* revenueController.getRevenueSummary
revenueController_getRevenueSummary(up, summaries) ==
    LET ret == revenueService_getRevenueSummary(up, summaries)
    IN  Outcome("revenueService.getRevenueSummary", <<>>, FetchError(up), ret,
            IF ret.ok
            THEN successResponse(200, "Revenue summary retrieved successfully", ret.value)
            ELSE errorResponse(500, "Failed to retrieve revenue summary", ret.error))

\* revenueController.getQuarterlyRevenue
revenueController_getQuarterlyRevenue(up, all) ==
    LET ret == revenueService_getQuarterlyRevenue(up, all)
    IN  Outcome("revenueService.getQuarterlyRevenue", <<>>, FetchError(up), ret,
            IF ret.ok
            THEN successResponse(200, "Quarterly revenue data retrieved successfully",
                                 ret.value)
            ELSE errorResponse(500, "Failed to retrieve quarterly revenue data",
                               ret.error))

\* revenueController.getRevenueBridgeData
revenueController_getRevenueBridgeData(query, up, all) ==
    LET limit == LimitOf(query, 50)
        ret == revenueService_getRevenueBridgeData(up, all, limit)
    IN  Outcome("revenueService.getRevenueBridgeData", [limit |-> limit], FetchError(up), ret,
            IF ret.ok
            THEN successResponse(200, "Revenue bridge data retrieved successfully",
                                 ret.value)
            ELSE errorResponse(500, "Failed to retrieve revenue bridge data", ret.error))

\* analyticsController.getPredefinedPrompts
analyticsController_getPredefinedPrompts ==
    LET ret == analyticsService_getPredefinedPrompts
    IN  Outcome("analyticsService.getPredefinedPrompts", <<>>, <<>>, ret,
            successResponse(200, "Predefined prompts retrieved successfully", ret.value))

\* the health route of routes/index.js
health ==
    Outcome("", <<>>, <<>>, Throw(<<>>), successResponse(200, "API is running", <<>>))

\* notFound, then errorHandler: no route matched the request
notFound ==
    Outcome("", <<>>, <<>>, Throw(<<>>),
            errorResponse(404, "", <<"Route", "not", "found">>))

\* ---------------------------------------------------------------- analytics
\* prompt.toLowerCase(), word by word
LowerWord(w) ==
    CASE w = "Countries" -> "countries"
      [] w = "Q4" -> "q4"
      [] w = "Bridge" -> "bridge"
      [] OTHER -> w

\* a prompt matched as it was typed
toLowerCase_AsTyped(words) == words

toLowerCase(words) == [i \in 1..Len(words) |-> LowerWord(words[i])]

\* promptLower.includes(phrase), a phrase being one word or two
Includes(words, phrase) ==
    \E i \in 1..(Len(words) - Len(phrase) + 1) :
        \A k \in 1..Len(phrase) : words[i + k - 1] = phrase[k]

\* the five sections of analyzeData a prompt asks for, in the order they run
SectionsOf(prompt) ==
    LET promptLower == toLowerCase(prompt)
    IN  << Includes(promptLower, <<"revenue", "growth">>)
               \/ Includes(promptLower, <<"top", "performing">>),
           Includes(promptLower, <<"country">>)
               \/ Includes(promptLower, <<"countries">>),
           Includes(promptLower, <<"customer", "concentration">>)
               \/ Includes(promptLower, <<"risks">>),
           Includes(promptLower, <<"quarterly">>) \/ Includes(promptLower, <<"q3">>)
               \/ Includes(promptLower, <<"q4">>),
           Includes(promptLower, <<"bridge">>) \/ Includes(promptLower, <<"expansion">>)
               \/ Includes(promptLower, <<"churned">>) >>

\* item.name of an object: undefined when the object has no such property
Property(item, name) == IF name \in DOMAIN item THEN item[name] ELSE Undefined

\* sum + x of the reduce callbacks: undefined and NaN make the sum NaN
JsPlus(sum, x) ==
    IF sum.t = "number" /\ x.t = "number" THEN Num(sum.v + x.v) ELSE NaN

\* array.reduce((sum, item) => sum + item[name], 0)
RECURSIVE ReduceSum(_, _, _)
ReduceSum(items, name, sum) ==
    IF items = <<>> THEN sum
    ELSE ReduceSum(Tail(items), name, JsPlus(sum, Property(Head(items), name)))

\* the digits of n in groups of three separated by commas
RECURSIVE GroupDigits(_)
GroupDigits(n) ==
    IF n < 1000 THEN NatToChars(n)
    ELSE LET low == n % 1000
             pad == IF low < 10 THEN <<"0", "0">> ELSE IF low < 100 THEN <<"0">> ELSE <<>>
         IN  GroupDigits(n \div 1000) \o <<",">> \o pad \o NatToChars(low)

\* transformData.formatCurrency of a whole number, null, undefined or NaN
formatCurrency(value) ==
    CASE value.t \in {"null", "undefined"} -> <<"0", ".", "0", "0">>
      [] value.t = "number" ->
            (IF value.v < 0 THEN <<"-">> ELSE <<>>) \o <<"$">>
                \o GroupDigits(Abs(value.v)) \o <<".", "0", "0">>
      [] OTHER -> <<"$", "N", "a", "N">>

\* the insights a section pushes: what each is about, and for the bridge
\* section the names it lists and the totals it prints
Insight(about) == [about |-> about, names |-> <<>>, total |-> <<>>]

InsightsOf(i, value) ==
    CASE i = 1 -> << Insight("Top 5 customers by revenue growth"),
                     Insight("Highest growth customer") >>
      [] i = 2 -> << Insight("Top 5 countries by revenue"),
                     Insight("Highest revenue country") >>
      [] i = 3 -> << Insight("Top 5 customers by total revenue"),
                     Insight("Customer concentration risk") >>
      [] i = 4 -> << Insight("Q3 Revenue"), Insight("Q4 Revenue"),
                     Insight("Overall growth"), Insight("Variance") >>
      [] OTHER ->
            << [about |-> "Top 5 customers by expansion revenue",
                names |-> [k \in 1..Len(value) |-> Property(value[k], "customerName")],
                total |-> <<>>],
               [about |-> "Total expansion revenue",
                names |-> <<>>,
                total |-> formatCurrency(ReduceSum(value, "expansionRevenue", Num(0)))],
               [about |-> "Total churned revenue",
                names |-> <<>>,
                total |-> formatCurrency(ReduceSum(value, "churnedRevenue", Num(0)))] >>

\* analyticsService.analyzeData: the sections run one after the other, each
\* awaiting one aggregate; failAt is the section whose fetch fails, 0 for none;
\* ties holds the orders the store chooses for the three sorts
analyticsService_analyzeData(prompt, failAt, store, ties) ==
    LET wanted == SectionsOf(prompt)
        rets == << revenueService_getTopGrowthCustomers(
                       failAt # 1, store.quarterly_revenue, ties[1], 5),
                   countriesService_getTopCountriesByRevenue(
                       failAt # 2, store.countries, ties[2], 5),
                   customersService_getCustomerConcentration(
                       failAt # 3, store.customer_concentration, ties[3], 5),
                   revenueService_getRevenueSummary(failAt # 4, store.revenue_summary),
                   revenueService_getRevenueBridgeData(
                       failAt # 5, store.revenue_bridge, 5) >>
        thrown == {i \in 1..5 : wanted[i] /\ ~rets[i].ok}
        Data(i) == IF wanted[i] THEN rets[i].value ELSE Undefined
        Pushed(i) == IF wanted[i] THEN InsightsOf(i, rets[i].value) ELSE <<>>
    IN  IF thrown # {}
        THEN Throw(rets[CHOOSE i \in thrown : \A j \in thrown : i <= j].error)
        ELSE Return([prompt |-> prompt,
                     insights |-> Pushed(1) \o Pushed(2) \o Pushed(3)
                                      \o Pushed(4) \o Pushed(5),
                     recommendations |->
                         IF Pushed(1) \o Pushed(2) \o Pushed(3)
                                \o Pushed(4) \o Pushed(5) # <<>>
                         THEN 4 ELSE 0,
                     data |-> [topCustomers |-> Data(1),
                               topCountries |-> Data(2),
                               concentration |-> Data(3),
                               summary |-> Data(4),
                               bridgeData |-> Data(5)]])

\* the failure of a fetch of an analysis: section failAt fails when it is run,
\* that is when the prompt asks for it and no section before it has thrown
AnalysisFetchError(prompt, failAt, store) ==
    LET wanted == SectionsOf(prompt)
    IN  IF failAt = 0 THEN <<>>
        ELSE IF ~wanted[failAt] THEN <<>>
        ELSE IF failAt = 5 /\ wanted[4] /\ store.revenue_summary = <<>> THEN <<>>
        ELSE FetchFailed

\* analyticsController.analyzeData
analyticsController_analyzeData(body, failAt, store, ties) ==
    IF ~Truthy(body.prompt) \/ body.prompt.t # "string"
    THEN Outcome("", <<>>, <<>>, Throw(<<>>),
                 errorResponse(400, "Invalid prompt provided", <<>>))
    ELSE LET ret == analyticsService_analyzeData(body.prompt.v, failAt, store, ties)
         IN  Outcome("analyticsService.analyzeData", [prompt |-> body.prompt.v], AnalysisFetchError(body.prompt.v, failAt, store), ret,
                 IF ret.ok
                 THEN successResponse(200, "Analysis completed successfully", ret.value)
                 ELSE errorResponse(500, "Failed to analyze data", ret.error))

\* the five aggregates of getDashboardSummary, in the order of the array
\* handed to Promise.all
Aggregates ==
    <<"revenueService.getRevenueSummary",
      "countriesService.getTopCountriesByRevenue",
      "customersService.getCustomerStatistics",
      "regionsService.getRegionsSummary",
      "customersService.getCustomerConcentration">>

\* one of the five aggregates, run over the store
Aggregate(i, up, store, tie) ==
    CASE i = 1 -> revenueService_getRevenueSummary(up, store.revenue_summary)
      [] i = 2 -> countriesService_getTopCountriesByRevenue(up, store.countries, tie, 5)
      [] i = 3 -> customersService_getCustomerStatistics(up, store.quarterly_revenue)
      [] i = 4 -> regionsService_getRegionsSummary(up, store.regions)
      [] i = 5 -> customersService_getCustomerConcentration(
                      up, store.customer_concentration, tie, 5)

\* the documents aggregate i sorts
SortedBy(i, store) ==
    CASE i = 2 -> store.countries
      [] i = 5 -> store.customer_concentration
      [] OTHER -> <<>>

\* a promise: "none", "pending", "fulfilled" or "rejected", with what it
\* settled to
Promise(state, ret) == [state |-> state, ret |-> ret]
NoPromise == Promise("none", Throw(<<>>))
Pending == Promise("pending", Throw(<<>>))
Settled(ret) == Promise(IF ret.ok THEN "fulfilled" ELSE "rejected", ret)

\* the promises of a request, the error of the first one that rejected and
\* the error of the first fetch that failed
NoneInFlight ==
    [promises |-> [i \in 1..5 |-> NoPromise], rejection |-> <<>>, failure |-> <<>>]

\* an aggregation that waits for every promise and reports what each settled to
PromiseAll_Settled(flight) ==
    Return([i \in 1..5 |->
               IF flight.promises[i].ret.ok THEN flight.promises[i].ret.value
               ELSE Null])

\* await Promise.all([...]): rejects with the first rejection, is fulfilled
\* with the five values when all five are fulfilled
PromiseAll(flight) ==
    IF flight.rejection # <<>> THEN Throw(flight.rejection)
    ELSE Return([i \in 1..5 |-> flight.promises[i].ret.value])

\* Promise.all has settled
CanSettle(flight) ==
    \/ flight.rejection # <<>>
    \/ \A i \in 1..5 : flight.promises[i].state = "fulfilled"

\* analyticsService.getDashboardSummary, from the await on
analyticsService_getDashboardSummary(flight) ==
    LET all == PromiseAll(flight)
    IN  IF ~all.ok THEN Throw(all.error)
        ELSE Return([revenue |-> all.value[1],
                     topCountries |-> all.value[2],
                     topCustomers |-> all.value[5],
                     customerStats |-> all.value[3],
                     regions |-> all.value[4]])

\* analyticsController.getDashboardSummary
analyticsController_getDashboardSummary(flight) ==
    LET ret == analyticsService_getDashboardSummary(flight)
    IN  Outcome("analyticsService.getDashboardSummary", <<>>, flight.failure, ret,
            IF ret.ok
            THEN successResponse(200, "Dashboard summary retrieved successfully",
                                 ret.value)
            ELSE errorResponse(500, "Failed to retrieve dashboard summary", ret.error))

\* -------------------------------------------------------------------- state
VARIABLES
    db,        \* the collections of the data store, by name
    req,       \* the request being served: method, URL, route, query, body
    stage,     \* "idle", "received", "sanitized" or "responded"
    res,       \* the response written for req
    call,      \* the last service call: operation, arguments, result
    inflight,  \* the promises req is awaiting together
    conn,      \* database/connection.js: its client, its handle, the clients
               \* created and the calls in progress
    walk,      \* the pages a client has fetched one after the other
    setup,     \* the setup script: its source files, its position, its runs
    sent       \* the status codes written to the client for req

vars == <<db, req, stage, res, call, inflight, conn, walk, setup, sent>>

\* ------------------------------------------------------ a client's pages
\* no page has been asked for
NoWalk == [op |-> "", filters |-> <<>>, pages |-> <<>>, totalPages |-> 0]

\* ----------------------------------------------------------- setup script
\* the script is not running and has not run
\* first is the store as the first complete run left it
NoSetup == [files |-> <<>>, pc |-> 0, runs |-> 0, first |-> <<>>]

\* ------------------------------------------------- database/connection.js
\* the calls of getDatabase, getCollection and closeDatabase that can be in
\* progress together, and the clients that can be created
MaxCallers == 3
MaxClients == 3

Callers == 1..MaxCallers

\* let client = null; let db = null; no client created, no call in progress.
\* A client is "connecting", "connected", "failed" or "closed"; clients are
\* numbered in the order of creation, 0 standing for null.
NoConnection ==
    [client |-> 0, db |-> 0, clients |-> <<>>,
     pc |-> [k \in Callers |-> "idle"], awaiting |-> [k \in Callers |-> 0]]

\* !(!client || !client.topology || !client.topology.isConnected())
IsConnected(c) == c.client # 0 /\ c.clients[c.client] = "connected"

\* getDatabase up to its await, with no connected client: client = new
\* MongoClient(MONGODB_URI), then client.connect() is awaited
NewClient(c, k) ==
    [c EXCEPT !.clients = Append(c.clients, "connecting"),
              !.client = Len(c.clients) + 1,
              !.pc[k] = "connecting",
              !.awaiting[k] = Len(c.clients) + 1]

\* getDatabase with a connected client: return db
ReuseClient(c, k) == [c EXCEPT !.pc[k] = "returned"]

\* getDatabase after its await: connect() resolved, db = client.db(DB_NAME)
\* with the client the module holds now, return db; client.db throws when the
\* module's client is null by now, and the catch block rethrows
Connected(c, k) ==
    LET mine == c.awaiting[k]
        opened == IF c.clients[mine] = "connecting"
                  THEN [c.clients EXCEPT ![mine] = "connected"] ELSE c.clients
    IN  IF c.client = 0
        THEN [c EXCEPT !.clients = opened, !.pc[k] = "threw", !.awaiting[k] = 0]
        ELSE [c EXCEPT !.clients = opened, !.db = c.client,
                       !.pc[k] = "returned", !.awaiting[k] = 0]

\* getDatabase after its await: connect() rejected, the catch block rethrows
ConnectFailed(c, k) ==
    LET mine == c.awaiting[k]
    IN  [c EXCEPT !.clients[mine] = IF c.clients[mine] = "connecting"
                                    THEN "failed" ELSE c.clients[mine],
                  !.pc[k] = "threw", !.awaiting[k] = 0]

\* closeDatabase up to its await: if (client) await client.close()
Closing(c, k) == [c EXCEPT !.pc[k] = "closing", !.awaiting[k] = c.client]

\* closeDatabase after its await: client = null; db = null
Closed(c, k) ==
    [c EXCEPT !.clients[c.awaiting[k]] = "closed",
              !.client = 0, !.db = 0,
              !.pc[k] = "closed", !.awaiting[k] = 0]

\* ------------------------------------------------------------- driver calls
\* the calls each service operation issues on the collections of the store
DriverCall(collection, method) == [collection |-> collection, method |-> method]

\* an operation that first clears the collection it reads
DriverCalls_Clearing(op) ==
    IF op = "revenueService.getRevenueSummary"
    THEN {DriverCall("revenue_summary", "deleteMany"),
          DriverCall("revenue_summary", "findOne")}
    ELSE {}

DriverCalls(op) ==
    CASE op = "revenueService.getRevenueSummary" ->
             {DriverCall("revenue_summary", "findOne")}
      [] op = "revenueService.getQuarterlyRevenue" ->
             {DriverCall("quarterly_revenue", "aggregate")}
      [] op = "revenueService.getTopGrowthCustomers" ->
             {DriverCall("quarterly_revenue", "find")}
      [] op = "revenueService.getRevenueBridgeData" ->
             {DriverCall("revenue_bridge", "aggregate")}
      [] op \in {"countriesService.getTopCountriesByRevenue",
                 "countriesService.getRevenueShareByCountry",
                 "countriesService.getAllCountries"} ->
             {DriverCall("countries", "find")}
      [] op = "countriesService.getCountryByName" ->
             {DriverCall("countries", "findOne")}
      [] op = "customersService.getCustomerConcentration" ->
             {DriverCall("customer_concentration", "find")}
      [] op = "customersService.getCustomerAnalysis" ->
             {DriverCall("quarterly_revenue", "countDocuments"),
              DriverCall("quarterly_revenue", "find")}
      [] op = "customersService.getCustomerStatistics" ->
             {DriverCall("quarterly_revenue", "find")}
      [] op = "customersService.getCustomerByName" ->
             {DriverCall("quarterly_revenue", "findOne")}
      [] op \in {"regionsService.getAllRegions", "regionsService.getRegionsSummary"} ->
             {DriverCall("regions", "find")}
      [] op = "regionsService.getRegionByName" ->
             {DriverCall("regions", "findOne")}
      [] OTHER -> {}

\* the operations a request runs: the aggregates of the dashboard, the
\* sections of an analysis, else the one operation of the controller
OperationsOf(op, args) ==
    CASE op = "analyticsService.getDashboardSummary" ->
             {Aggregates[i] : i \in 1..5}
      [] op = "analyticsService.analyzeData" ->
             LET wanted == SectionsOf(args.prompt)
                 ops == <<"revenueService.getTopGrowthCustomers",
                          "countriesService.getTopCountriesByRevenue",
                          "customersService.getCustomerConcentration",
                          "revenueService.getRevenueSummary",
                          "revenueService.getRevenueBridgeData">>
             IN  {ops[i] : i \in {j \in 1..5 : wanted[j]}}
      [] OTHER -> {op}

\* a collection after a driver call: deleteMany({}) empties it, the reading
\* calls leave it as it is
AfterDriverCall(docs, method) == IF method = "deleteMany" THEN <<>> ELSE docs

\* the store after the driver calls of a request
StoreAfter(store, op, args) ==
    LET calls == UNION {DriverCalls(o) : o \in OperationsOf(op, args)}
    IN  [c \in DOMAIN store |->
            IF \E dc \in calls : dc.collection = c /\ dc.method = "deleteMany"
            THEN AfterDriverCall(store[c], "deleteMany")
            ELSE store[c]]

\* ------------------------------------------------------------------- inputs
Labels == <<"A", "B", "C", "D", "E", "F">>

RevenueValues == {Null, Num(-1), Num(0), Num(1), Num(33), Num(100), Num(200), Num(300)}
RegionValues == {Null, Num(-1), Num(0), Num(1), Num(3)}
TotalRevenueValues == {Null, Num(0), Num(100), Num(200)}

\* Quarter 3 Revenue, Quarter 4 Revenue, Variance of a customer
CustomerValues ==
    { <<Num(100), Num(200), Num(100)>>,
      <<Num(200), Num(100), Num(-100)>>,
      <<Num(150), Num(150), Num(0)>>,
      <<Num(50), Null, Null>> }

HttpCustomerValues ==
    { <<Num(100), Num(200), Num(100)>>,
      <<Num(200), Num(100), Num(-100)>>,
      <<Null, Num(200), Null>> }

\* New, Expansion, Churned, Contraction Revenue of a customer
BridgeValues ==
    { <<Num(100), Num(50), Num(-30), Num(-20)>>,
      <<Null, Num(10), Null, Num(-5)>> }

SeqsUpTo(S, n) == UNION {[1..k -> S] : k \in 0..n}

CountryDocs(f) == [i \in 1..Len(f) |-> [Country |-> Labels[i], YearlyRevenue |-> f[i]]]
RegionDocs(f) == [i \in 1..Len(f) |-> [Region |-> Labels[i], YearlyRevenue |-> f[i]]]
ConcentrationDocs(f) ==
    [i \in 1..Len(f) |-> [CustomerName |-> Labels[i], TotalRevenue |-> f[i]]]
CustomerDocs(f) ==
    [i \in 1..Len(f) |-> [CustomerName |-> Labels[i],
                          Quarter3Revenue |-> f[i][1],
                          Quarter4Revenue |-> f[i][2],
                          Variance |-> f[i][3]]]
BridgeDocs(f) ==
    [i \in 1..Len(f) |-> [CustomerName |-> Labels[i],
                          NewRevenue |-> f[i][1],
                          ExpansionRevenue |-> f[i][2],
                          ChurnedRevenue |-> f[i][3],
                          ContractionRevenue |-> f[i][4]]]

\* the one document createRevenueSummary inserts
SummaryDocs(q3, q4) ==
    << [totalQ3Revenue |-> q3, totalQ4Revenue |-> q4, totalVariance |-> q4 - q3] >>

\* createRevenueSummary: the totals of the quarterly data, a missing revenue
\* counting 0
createRevenueSummary(quarterlyData) ==
    SummaryDocs(GroupSum(quarterlyData, "Quarter3Revenue"),
                GroupSum(quarterlyData, "Quarter4Revenue"))

\* the data of the scenarios: countries A 100, B 300, C 200
SampleDb ==
    [countries |-> CountryDocs(<<Num(100), Num(300), Num(200)>>),
     regions |-> RegionDocs(<<Num(3), Num(1)>>),
     customer_concentration |-> ConcentrationDocs(<<Num(100), Num(200)>>),
     quarterly_revenue |->
         CustomerDocs(<< <<Num(200), Num(100), Num(-100)>>,
                         <<Num(100), Num(200), Num(100)>> >>),
     revenue_bridge |->
         BridgeDocs(<< <<Num(100), Num(50), Num(-30), Num(-20)>>,
                       <<Null, Num(10), Null, Num(-5)>> >>),
     revenue_summary |-> SummaryDocs(300, 300)]

\* the store set up from the quarterly data f
WithCustomers(f) ==
    [SampleDb EXCEPT !.quarterly_revenue = CustomerDocs(f),
                     !.revenue_summary = createRevenueSummary(CustomerDocs(f))]

\* ----------------------------------------------------- scripts/setup-database
MaxRuns == 2

\* the driver calls of setupCollections and createRevenueSummary, in order
SetupCalls ==
    << DriverCall("countries", "deleteMany"),
       DriverCall("countries", "insertMany"),
       DriverCall("regions", "deleteMany"),
       DriverCall("regions", "insertMany"),
       DriverCall("quarterly_revenue", "deleteMany"),
       DriverCall("quarterly_revenue", "insertMany"),
       DriverCall("revenue_bridge", "deleteMany"),
       DriverCall("revenue_bridge", "insertMany"),
       DriverCall("customer_concentration", "deleteMany"),
       DriverCall("customer_concentration", "insertMany"),
       DriverCall("revenue_summary", "deleteMany"),
       DriverCall("revenue_summary", "insertOne") >>

\* a setup whose deleteMany({}) removes nothing
SetupCall_Keeping(docs, method, data) ==
    IF method = "deleteMany" THEN docs ELSE docs \o data

\* a collection after a call of the script: deleteMany({}) empties it,
\* insertMany and insertOne add the documents handed to them
SetupCall(docs, method, data) ==
    IF method = "deleteMany" THEN <<>> ELSE docs \o data

\* the documents call number pc hands to the driver: the content of the
\* source file of the collection, or the summary of the quarterly file
SetupData(files, pc) ==
    IF SetupCalls[pc].collection = "revenue_summary"
    THEN createRevenueSummary(files.quarterly_revenue)
    ELSE files[SetupCalls[pc].collection]

\* the store after call number pc of the script
AfterSetupCall(store, files, pc) ==
    [store EXCEPT ![SetupCalls[pc].collection] =
        SetupCall(@, SetupCalls[pc].method, SetupData(files, pc))]

\* the source files: one array per collection, none of them empty
FilesOf(store) ==
    [c \in DOMAIN store \ {"revenue_summary"} |-> store[c]]

SourceFiles ==
    {FilesOf(WithCustomers(f)) :
         f \in SeqsUpTo(HttpCustomerValues, 2) \ {<<>>}}

\* what the data base may hold before the script runs: nothing, or the
\* content of an earlier load
EarlierStores ==
    {[c \in DOMAIN SampleDb |-> <<>>], SampleDb,
     WithCustomers(<< <<Num(100), Num(200), Num(100)>> >>)}

NoQuery ==
    [limit |-> Undefined, page |-> Undefined,
     minQ4Revenue |-> Undefined, positiveGrowthOnly |-> Undefined]

NoBody == [prompt |-> Undefined]

\* ------------------------------------------------------------------ routing
\* a route: method, the segments of its path below /api, the path as the
\* routers spell it, whether sanitizeQuery is registered before the controller
Route(method, pattern, path, sanitize) ==
    [method |-> method, pattern |-> pattern, path |-> path, sanitize |-> sanitize]

\* routes/index.js and the routers it mounts, in the order of registration
RouteTable ==
    << Route("GET", <<"health">>, "/api/health", FALSE),
       Route("GET", <<"revenue", "summary">>, "/api/revenue/summary", FALSE),
       Route("GET", <<"revenue", "quarterly">>, "/api/revenue/quarterly", FALSE),
       Route("GET", <<"revenue", "growth-customers">>,
             "/api/revenue/growth-customers", TRUE),
       Route("GET", <<"revenue", "bridge">>, "/api/revenue/bridge", TRUE),
       Route("GET", <<"countries", "top-revenue">>, "/api/countries/top-revenue", TRUE),
       Route("GET", <<"countries", "revenue-share">>,
             "/api/countries/revenue-share", TRUE),
       Route("GET", <<"countries">>, "/api/countries", FALSE),
       Route("GET", <<"countries", ":countryName">>,
             "/api/countries/:countryName", FALSE),
       Route("GET", <<"customers", "concentration">>,
             "/api/customers/concentration", TRUE),
       Route("GET", <<"customers", "analysis">>, "/api/customers/analysis", TRUE),
       Route("GET", <<"customers", "statistics">>, "/api/customers/statistics", FALSE),
       Route("GET", <<"customers", ":customerName">>,
             "/api/customers/:customerName", FALSE),
       Route("GET", <<"regions">>, "/api/regions", FALSE),
       Route("GET", <<"regions", "revenue">>, "/api/regions/revenue", FALSE),
       Route("GET", <<"regions", ":regionName">>, "/api/regions/:regionName", FALSE),
       Route("GET", <<"analytics", "prompts">>, "/api/analytics/prompts", FALSE),
       Route("POST", <<"analytics", "analyze">>, "/api/analytics/analyze", FALSE),
       Route("GET", <<"analytics", "dashboard">>, "/api/analytics/dashboard", FALSE) >>

\* no route matched: the request falls through to notFound
NoRoute == Route("", <<>>, "*", FALSE)

IsParam(segment) == segment \in {":countryName", ":customerName", ":regionName"}

Matches(route, method, url) ==
    /\ route.method = method
    /\ Len(route.pattern) = Len(url)
    /\ \A i \in 1..Len(url) : IsParam(route.pattern[i]) \/ route.pattern[i] = url[i]

\* the last registered route that matches
Dispatch_LastMatch(method, url) ==
    LET hits == {i \in 1..Len(RouteTable) : Matches(RouteTable[i], method, url)}
    IN  IF hits = {} THEN NoRoute
        ELSE RouteTable[CHOOSE i \in hits : \A j \in hits : i >= j]

\* the first registered route that matches
Dispatch(method, url) ==
    LET hits == {i \in 1..Len(RouteTable) : Matches(RouteTable[i], method, url)}
    IN  IF hits = {} THEN NoRoute
        ELSE RouteTable[CHOOSE i \in hits : \A j \in hits : i <= j]

\* req.params of the matched route
ParamsOf(route, url) ==
    [name |-> IF route.pattern # <<>> /\ IsParam(route.pattern[Len(route.pattern)])
              THEN url[Len(url)] ELSE ""]

\* the middleware registered for each path
Routes ==
    [p \in {RouteTable[i].path : i \in 1..Len(RouteTable)} |->
        [sanitize |-> \E i \in 1..Len(RouteTable) :
                          RouteTable[i].path = p /\ RouteTable[i].sanitize]]

\* req.originalUrl keeps the query as it was sent; req.query is what the
\* middleware and the controller read and rewrite
Request(method, url, query, body) ==
    LET route == Dispatch(method, url)
    IN  [method |-> method, url |-> url, path |-> route.path,
         params |-> ParamsOf(route, url),
         originalUrl |-> query, query |-> query, body |-> body]

NoRequest ==
    [method |-> "", url |-> <<>>, path |-> "", params |-> [name |-> ""],
     originalUrl |-> NoQuery, query |-> NoQuery, body |-> NoBody]
NoResponse == errorResponse(0, "", <<>>)
NoCall == [op |-> "", args |-> <<>>, failure |-> <<>>, ret |-> Throw(<<>>)]

Get(url) == Request("GET", url, NoQuery, NoBody)
GetLimit(url, limit) == Request("GET", url, [NoQuery EXCEPT !.limit = limit], NoBody)

LimitTexts ==
    {Undefined, Str(<<>>), Str(<<"0">>), Str(<<"1">>), Str(<<"2">>),
     Str(<<"-", "1">>), Str(<<"-", "2">>), Str(<<"a">>), Str(<<"1", ".", "5">>)}
PageTexts ==
    {Undefined, Str(<<"0">>), Str(<<"1">>), Str(<<"2">>), Str(<<"3">>),
     Str(<<"-", "1">>)}
MinQ4Texts == {Undefined, Str(<<"1", "5", "0">>), Str(<<"-", "1">>)}
GrowthTexts == {Undefined, Str(TrueText), Str(<<"f", "a", "l", "s", "e">>)}

\* the URLs whose only parameter is limit
LimitPaths ==
    { <<"countries", "top-revenue">>, <<"countries", "revenue-share">>,
      <<"revenue", "growth-customers">>, <<"revenue", "bridge">>,
      <<"customers", "concentration">> }

\* the names asked for: A and C are labels of documents, Z is not
Names == {"A", "C", "Z"}

\* the prompts posted to /api/analytics/analyze
Prompts ==
    {Undefined, Null, Num(5), Str(<<>>), Str(<<"hello">>), Str(<<"top", "Countries">>),
     Str(<<"Q4", "revenue", "growth">>), Str(<<"churned", "customers">>),
     Str(<<"customer", "concentration", "risks">>)}

\* the endpoints of test-apis.js
TestScriptRequests ==
    { Get(<<"health">>), Get(<<"revenue", "summary">>),
      Get(<<"revenue", "quarterly">>),
      GetLimit(<<"customers", "concentration">>, Str(<<"5">>)),
      Get(<<"customers", "statistics">>),
      GetLimit(<<"countries">>, Str(<<"5">>)),
      Get(<<"regions">>), Get(<<"analytics", "dashboard">>),
      Get(<<"analytics", "metrics">>) }

Requests ==
    {GetLimit(url, l) : url \in LimitPaths, l \in LimitTexts}
    \cup
    {Request("GET", <<"customers", "analysis">>,
             [limit |-> l, page |-> pg, minQ4Revenue |-> m, positiveGrowthOnly |-> g],
             NoBody) :
        l \in LimitTexts, pg \in PageTexts, m \in MinQ4Texts, g \in GrowthTexts}
    \cup
    {Get(<<c, n>>) : c \in {"countries", "customers", "regions"}, n \in Names}
    \cup
    {Request("POST", <<"analytics", "analyze">>, NoQuery, [prompt |-> p]) :
        p \in Prompts}
    \cup
    {Get(<<"regions", "revenue">>), Get(<<"analytics", "prompts">>),
     Get(<<"analytics", "analyze">>), Get(<<"customers">>)}
    \cup
    TestScriptRequests

\* --------------------------------------------------------------------- Init
Quiet ==
    /\ req = NoRequest
    /\ stage = "idle"
    /\ res = NoResponse
    /\ call = NoCall
    /\ inflight = NoneInFlight
    /\ conn = NoConnection
    /\ walk = NoWalk
    /\ setup = NoSetup
    /\ sent = <<>>

\* the API over a store in which one collection varies at a time
Init ==
    /\ db \in {WithCustomers(f) :
                   f \in SeqsUpTo(HttpCustomerValues, MaxLen)}
           \cup {[SampleDb EXCEPT !.revenue_bridge = BridgeDocs(f)] :
                   f \in SeqsUpTo(BridgeValues, MaxLen)}
           \cup {[SampleDb EXCEPT !.revenue_summary = <<>>],
                 [SampleDb EXCEPT !.countries = <<>>],
                 [SampleDb EXCEPT !.regions = <<>>]}
    /\ Quiet

\* the store of the aggregate services, one collection varying at a time
InitServices ==
    /\ db \in {[SampleDb EXCEPT !.countries = CountryDocs(f)] :
                   f \in SeqsUpTo(RevenueValues, MaxLen)}
           \cup {[SampleDb EXCEPT !.regions = RegionDocs(f)] :
                   f \in SeqsUpTo(RegionValues, MaxLen)}
           \cup {[SampleDb EXCEPT !.customer_concentration = ConcentrationDocs(f)] :
                   f \in SeqsUpTo(TotalRevenueValues, MaxLen)}
           \cup {WithCustomers(f) :
                   f \in SeqsUpTo(CustomerValues, MaxLen)}
    /\ Quiet

\* the store of the filter-and-paginate services
InitFilter ==
    /\ db \in {WithCustomers(f) :
                   f \in SeqsUpTo(CustomerValues, MaxLen)}
    /\ Quiet

\* ------------------------------------------------------------ request chain
\* a request arrives and is matched to its route
Receive ==
    /\ stage = "idle"
    /\ \E r \in Requests : req' = r
    /\ stage' = "received"
    /\ res' = NoResponse
    /\ call' = NoCall
    /\ sent' = <<>>
    /\ UNCHANGED <<db, inflight, conn, walk, setup>>

\* the sanitizeQuery middleware of the route, then next()
SanitizeQuery ==
    /\ stage = "received"
    /\ req.path \in DOMAIN Routes
    /\ Routes[req.path].sanitize
    /\ req' = [req EXCEPT !.query = sanitizeQuery(req.query)]
    /\ stage' = "sanitized"
    /\ UNCHANGED <<db, res, call, inflight, conn, walk, setup, sent>>

Ready(path) ==
    /\ req.path = path
    /\ stage = IF Routes[path].sanitize THEN "sanitized" ELSE "received"

\* the controller has run: its driver calls have acted on the store and its
\* response is written
Respond(outcome) ==
    /\ res' = outcome.res
    /\ call' = outcome.call
    /\ stage' = "responded"
    /\ db' = StoreAfter(db, outcome.call.op, outcome.call.args)
    /\ sent' = ResJson(sent, outcome.res)
    /\ UNCHANGED <<req, inflight, conn, walk, setup>>

\* the failures of a fetch: the messages of the errors the driver throws when
\* the server refuses the connection, cannot be resolved, or does not answer
FetchFailures ==
    { FetchFailed,
      <<"getaddrinfo", "ENOTFOUND", "localhost">>,
      <<"Server", "selection", "timed", "out">> }

Health ==
    /\ Ready("/api/health")
    /\ Respond(health)

GetRevenueSummary ==
    /\ Ready("/api/revenue/summary")
    /\ \E up \in BOOLEAN :
           Respond(revenueController_getRevenueSummary(up, db.revenue_summary))

GetQuarterlyRevenue ==
    /\ Ready("/api/revenue/quarterly")
    /\ \E up \in BOOLEAN :
           Respond(revenueController_getQuarterlyRevenue(up, db.quarterly_revenue))

GetTopGrowthCustomers ==
    /\ Ready("/api/revenue/growth-customers")
    /\ \E up \in BOOLEAN : \E tie \in Orders(up, Len(db.quarterly_revenue)) :
           Respond(revenueController_getTopGrowthCustomers(
                       req.query, up, db.quarterly_revenue, tie))

GetRevenueBridgeData ==
    /\ Ready("/api/revenue/bridge")
    /\ \E up \in BOOLEAN :
           Respond(revenueController_getRevenueBridgeData(
                       req.query, up, db.revenue_bridge))

GetTopCountriesByRevenue ==
    /\ Ready("/api/countries/top-revenue")
    /\ \E up \in BOOLEAN : \E tie \in Orders(up, Len(db.countries)) :
           Respond(countriesController_getTopCountriesByRevenue(
                       req.query, up, db.countries, tie))

GetRevenueShareByCountry ==
    /\ Ready("/api/countries/revenue-share")
    /\ \E up \in BOOLEAN :
           Respond(countriesController_getRevenueShareByCountry(
                       req.query, up, db.countries))

GetAllCountries ==
    /\ Ready("/api/countries")
    /\ \E up \in BOOLEAN : \E tie \in Orders(up, Len(db.countries)) :
           Respond(countriesController_getAllCountries(up, db.countries, tie))

GetCountryByName ==
    /\ Ready("/api/countries/:countryName")
    /\ \E failure \in {<<>>} \cup FetchFailures :
           Respond(countriesController_getCountryByName(
                       req.params, failure, db.countries))

GetCustomerConcentration ==
    /\ Ready("/api/customers/concentration")
    /\ \E up \in BOOLEAN : \E tie \in Orders(up, Len(db.customer_concentration)) :
           Respond(customersController_getCustomerConcentration(
                       req.query, up, db.customer_concentration, tie))

GetCustomerAnalysis ==
    /\ Ready("/api/customers/analysis")
    /\ \E up \in BOOLEAN : \E tie \in Orders(up, Len(db.quarterly_revenue)) :
           Respond(customersController_getCustomerAnalysis(
                       req.query, up, db.quarterly_revenue, tie))

GetCustomerStatistics ==
    /\ Ready("/api/customers/statistics")
    /\ \E up \in BOOLEAN :
           Respond(customersController_getCustomerStatistics(up, db.quarterly_revenue))

GetCustomerByName ==
    /\ Ready("/api/customers/:customerName")
    /\ \E failure \in {<<>>} \cup FetchFailures :
           Respond(customersController_getCustomerByName(
                       req.params, failure, db.quarterly_revenue))

GetAllRegions ==
    /\ Ready("/api/regions")
    /\ \E up \in BOOLEAN : \E tie \in Orders(up, Len(db.regions)) :
           Respond(regionsController_getAllRegions(up, db.regions, tie))

GetRegionsRevenue ==
    /\ Ready("/api/regions/revenue")
    /\ \E up \in BOOLEAN :
           Respond(regionsController_getRegionsRevenue(up, db.regions))

GetRegionByName ==
    /\ Ready("/api/regions/:regionName")
    /\ \E failure \in {<<>>} \cup FetchFailures :
           Respond(regionsController_getRegionByName(req.params, failure, db.regions))

GetPredefinedPrompts ==
    /\ Ready("/api/analytics/prompts")
    /\ Respond(analyticsController_getPredefinedPrompts)

\* the orders the store may choose for the sorts of the sections a prompt asks
\* for
TiesOf(body, store) ==
    LET wanted == IF body.prompt.t # "string" THEN [i \in 1..5 |-> FALSE]
                  ELSE SectionsOf(body.prompt.v)
    IN  { <<t1, t2, t3>> :
            t1 \in Orders(wanted[1], Len(store.quarterly_revenue)),
            t2 \in Orders(wanted[2], Len(store.countries)),
            t3 \in Orders(wanted[3], Len(store.customer_concentration)) }

AnalyzeData ==
    /\ Ready("/api/analytics/analyze")
    /\ \E failAt \in 0..5 : \E ties \in TiesOf(req.body, db) :
           Respond(analyticsController_analyzeData(req.body, failAt, db, ties))

\* getDashboardSummary up to its await: the five aggregates are called one
\* after the other, each returning a pending promise at its first await
StartDashboardSummary ==
    /\ Ready("/api/analytics/dashboard")
    /\ inflight = NoneInFlight
    /\ inflight' = [NoneInFlight EXCEPT !.promises = [i \in 1..5 |-> Pending]]
    /\ UNCHANGED <<db, req, stage, res, call, conn, walk, setup, sent>>

\* one pending aggregate settles; the first rejection settles Promise.all
SettleAggregate ==
    /\ stage \in {"received", "sanitized"}
    /\ \E i \in 1..5 :
        /\ inflight.promises[i].state = "pending"
        /\ \E up \in BOOLEAN : \E tie \in Orders(up, Len(SortedBy(i, db))) :
            LET ret == Aggregate(i, up, db, tie)
            IN  inflight' =
                    [promises |-> [inflight.promises EXCEPT ![i] = Settled(ret)],
                     rejection |-> IF inflight.rejection = <<>> /\ ~ret.ok
                                   THEN ret.error ELSE inflight.rejection,
                     failure |-> IF inflight.failure = <<>>
                                 THEN FetchError(up) ELSE inflight.failure]
    /\ UNCHANGED <<db, req, stage, res, call, conn, walk, setup, sent>>

\* Promise.all has settled: getDashboardSummary returns or rethrows and the
\* controller responds
GetDashboardSummary ==
    /\ Ready("/api/analytics/dashboard")
    /\ inflight.promises[1].state # "none"
    /\ CanSettle(inflight)
    /\ Respond(analyticsController_getDashboardSummary(inflight))

\* no route matched
NotFound ==
    /\ stage = "received"
    /\ req.path = NoRoute.path
    /\ Respond(notFound)

\* the response has been sent; the request and what was built for it are gone
Finish ==
    /\ stage = "responded"
    /\ req' = NoRequest
    /\ stage' = "idle"
    /\ res' = NoResponse
    /\ call' = NoCall
    /\ inflight' = NoneInFlight
    /\ sent' = <<>>
    /\ UNCHANGED <<db, conn, walk, setup>>

Next ==
    \/ Receive
    \/ SanitizeQuery
    \/ Health
    \/ GetRevenueSummary
    \/ GetQuarterlyRevenue
    \/ GetTopGrowthCustomers
    \/ GetRevenueBridgeData
    \/ GetTopCountriesByRevenue
    \/ GetRevenueShareByCountry
    \/ GetAllCountries
    \/ GetCountryByName
    \/ GetCustomerConcentration
    \/ GetCustomerAnalysis
    \/ GetCustomerStatistics
    \/ GetCustomerByName
    \/ GetAllRegions
    \/ GetRegionsRevenue
    \/ GetRegionByName
    \/ GetPredefinedPrompts
    \/ AnalyzeData
    \/ StartDashboardSummary
    \/ SettleAggregate
    \/ GetDashboardSummary
    \/ NotFound
    \/ Finish

Spec == Init /\ [][Next]_vars

\* ------------------------------------------- a response that cannot be built
\* the controller has run and json threw on the response it built (a value
\* that cannot be serialised): the builder's catch block answers
RespondFromCatch(outcome) ==
    /\ outcome.res.success
    /\ Respond([call |-> outcome.call, res |-> JsonThrew(outcome.res)])

GetCustomerAnalysisUnbuilt ==
    /\ Ready("/api/customers/analysis")
    /\ \E tie \in Orders(TRUE, Len(db.quarterly_revenue)) :
           RespondFromCatch(customersController_getCustomerAnalysis(
                                req.query, TRUE, db.quarterly_revenue, tie))

GetCustomerStatisticsUnbuilt ==
    /\ Ready("/api/customers/statistics")
    /\ RespondFromCatch(customersController_getCustomerStatistics(
                            TRUE, db.quarterly_revenue))

\* the stores of the populated and of the empty data base
InitAnswer ==
    /\ db \in {SampleDb, [c \in DOMAIN SampleDb |-> <<>>]}
    /\ Quiet

NextAnswer ==
    \/ Next
    \/ GetCustomerAnalysisUnbuilt
    \/ GetCustomerStatisticsUnbuilt

SpecAnswer == InitAnswer /\ [][NextAnswer]_vars

\* ------------------------------------------------------------ service calls
Invoke(op, args, failure, ret) ==
    /\ call' = [op |-> op, args |-> args, failure |-> failure, ret |-> ret]
    /\ UNCHANGED <<db, req, stage, res, inflight, conn, walk, setup, sent>>

Limits == (-MaxLimit)..MaxLimit

CallGetTopCountriesByRevenue ==
    /\ call = NoCall
    /\ \E up \in BOOLEAN, limit \in Limits : \E tie \in Orders(up, Len(db.countries)) :
        Invoke("countriesService.getTopCountriesByRevenue", [limit |-> limit], FetchError(up),
               countriesService_getTopCountriesByRevenue(up, db.countries, tie, limit))

CallGetRevenueShareByCountry ==
    /\ call = NoCall
    /\ \E up \in BOOLEAN, limit \in Limits :
        Invoke("countriesService.getRevenueShareByCountry", [limit |-> limit], FetchError(up),
               countriesService_getRevenueShareByCountry(up, db.countries, limit))

CallGetRegionsSummary ==
    /\ call = NoCall
    /\ \E up \in BOOLEAN :
        Invoke("regionsService.getRegionsSummary", <<>>, FetchError(up),
               regionsService_getRegionsSummary(up, db.regions))

CallGetCustomerConcentration ==
    /\ call = NoCall
    /\ \E up \in BOOLEAN, limit \in Limits : \E tie \in Orders(up, Len(db.customer_concentration)) :
        Invoke("customersService.getCustomerConcentration", [limit |-> limit], FetchError(up),
               customersService_getCustomerConcentration(
                   up, db.customer_concentration, tie, limit))

CallGetTopGrowthCustomers ==
    /\ call = NoCall
    /\ \E up \in BOOLEAN, limit \in Limits : \E tie \in Orders(up, Len(db.quarterly_revenue)) :
        Invoke("revenueService.getTopGrowthCustomers", [limit |-> limit], FetchError(up),
               revenueService_getTopGrowthCustomers(up, db.quarterly_revenue, tie, limit))

CallGetCustomerStatistics ==
    /\ call = NoCall
    /\ \E up \in BOOLEAN :
        Invoke("customersService.getCustomerStatistics", <<>>, FetchError(up),
               customersService_getCustomerStatistics(up, db.quarterly_revenue))

\* the caller has consumed the result
Discard ==
    /\ call # NoCall
    /\ call' = NoCall
    /\ UNCHANGED <<db, req, stage, res, inflight, conn, walk, setup, sent>>

NextServices ==
    \/ CallGetTopCountriesByRevenue
    \/ CallGetRevenueShareByCountry
    \/ CallGetRegionsSummary
    \/ CallGetCustomerConcentration
    \/ CallGetTopGrowthCustomers
    \/ CallGetCustomerStatistics
    \/ Discard

SpecServices == InitServices /\ [][NextServices]_vars

FilterSpecs ==
    [minQ4Revenue : {-1, 0, 150}, positiveGrowthOnly : BOOLEAN,
     limit : (-1)..MaxLen, page : (-1)..MaxPage]

CallGetCustomerAnalysis ==
    /\ call = NoCall
    /\ \E up \in BOOLEAN, filters \in FilterSpecs : \E tie \in Orders(up, Len(db.quarterly_revenue)) :
        Invoke("customersService.getCustomerAnalysis", filters, FetchError(up),
               customersService_getCustomerAnalysis(
                   up, db.quarterly_revenue, tie, filters))

CallGetCustomerQuarterlyData ==
    /\ call = NoCall
    /\ \E up \in BOOLEAN, filters \in FilterSpecs : \E tie \in Orders(up, Len(db.quarterly_revenue)) :
        Invoke("revenueService.getCustomerQuarterlyData", filters, FetchError(up),
               revenueService_getCustomerQuarterlyData(
                   up, db.quarterly_revenue, tie, filters))

NextFilter ==
    \/ CallGetCustomerAnalysis
    \/ CallGetCustomerQuarterlyData
    \/ Discard

SpecFilter == InitFilter /\ [][NextFilter]_vars

\* --------------------------------------------- calls of the connection module
InitConnection ==
    /\ db = SampleDb
    /\ Quiet

Connection(next) ==
    /\ conn' = next
    /\ UNCHANGED <<db, req, stage, res, call, inflight, walk, setup, sent>>

\* a service calls getCollection, which calls getDatabase: no client is
\* connected
GetDatabaseNew ==
    \E k \in Callers :
        /\ conn.pc[k] = "idle"
        /\ ~IsConnected(conn)
        /\ Len(conn.clients) < MaxClients
        /\ Connection(NewClient(conn, k))

\* getDatabase while the module's client is connected
GetDatabaseReuse ==
    \E k \in Callers :
        /\ conn.pc[k] = "idle"
        /\ IsConnected(conn)
        /\ Connection(ReuseClient(conn, k))

ConnectResolves ==
    \E k \in Callers :
        /\ conn.pc[k] = "connecting"
        /\ Connection(Connected(conn, k))

ConnectRejects ==
    \E k \in Callers :
        /\ conn.pc[k] = "connecting"
        /\ Connection(ConnectFailed(conn, k))

CloseDatabaseStart ==
    \E k \in Callers :
        /\ conn.pc[k] = "idle"
        /\ conn.client # 0
        /\ Connection(Closing(conn, k))

CloseDatabaseDone ==
    \E k \in Callers :
        /\ conn.pc[k] = "closing"
        /\ Connection(Closed(conn, k))

\* the caller has its handle, or its error, and goes on
CallReturns ==
    \E k \in Callers :
        /\ conn.pc[k] \in {"returned", "threw", "closed"}
        /\ Connection([conn EXCEPT !.pc[k] = "idle"])

NextConnection ==
    \/ GetDatabaseNew
    \/ GetDatabaseReuse
    \/ ConnectResolves
    \/ ConnectRejects
    \/ CloseDatabaseStart
    \/ CloseDatabaseDone
    \/ CallReturns

SpecConnection == InitConnection /\ [][NextConnection]_vars

\* ------------------------------------------- a client reading page by page
\* a fixed filter and a page size of at least one record, starting at page 1
WalkSpecs == {f \in FilterSpecs : f.page = 1 /\ f.limit >= 1}

PagedOps ==
    {"customersService.getCustomerAnalysis",
     "revenueService.getCustomerQuarterlyData"}

PageOf(op, up, all, tie, filters) ==
    IF op = "customersService.getCustomerAnalysis"
    THEN customersService_getCustomerAnalysis(up, all, tie, filters)
    ELSE revenueService_getCustomerQuarterlyData(up, all, tie, filters)

\* one call of the service; a page that was returned is kept by the client
Fetched(op, filters, failure, ret) ==
    /\ call' = [op |-> op, args |-> filters, failure |-> failure, ret |-> ret]
    /\ walk' = IF ret.ok
               THEN [op |-> op,
                     filters |-> filters,
                     pages |-> Append(walk.pages, ret.value.customers),
                     totalPages |-> ret.value.pagination.totalPages.v]
               ELSE walk
    /\ UNCHANGED <<db, req, stage, res, inflight, conn, setup, sent>>

\* the client asks for page 1
FetchFirstPage ==
    /\ walk = NoWalk
    /\ \E op \in PagedOps, up \in BOOLEAN, filters \in WalkSpecs :
       \E tie \in Orders(up, Len(db.quarterly_revenue)) :
           Fetched(op, filters, FetchError(up),
                   PageOf(op, up, db.quarterly_revenue, tie, filters))

\* the client asks for the page after the last one it has, with the same
\* filter and page size; the server orders the documents anew
FetchNextPage ==
    /\ walk # NoWalk
    /\ Len(walk.pages) < walk.totalPages
    /\ \E up \in BOOLEAN : \E tie \in Orders(up, Len(db.quarterly_revenue)) :
           LET filters == [walk.filters EXCEPT !.page = Len(walk.pages) + 1]
           IN  Fetched(walk.op, filters, FetchError(up),
                       PageOf(walk.op, up, db.quarterly_revenue, tie, filters))

\* the client has read the last page and starts over
LeavePages ==
    /\ walk # NoWalk
    /\ Len(walk.pages) >= walk.totalPages
    /\ walk' = NoWalk
    /\ call' = NoCall
    /\ UNCHANGED <<db, req, stage, res, inflight, conn, setup, sent>>

NextPages ==
    \/ FetchFirstPage
    \/ FetchNextPage
    \/ LeavePages

SpecPages == InitFilter /\ [][NextPages]_vars

\* ------------------------------------------------- runs of the setup script
InitSetup ==
    /\ db \in EarlierStores
    /\ req = NoRequest
    /\ stage = "idle"
    /\ res = NoResponse
    /\ call = NoCall
    /\ inflight = NoneInFlight
    /\ conn = NoConnection
    /\ walk = NoWalk
    /\ setup \in {[NoSetup EXCEPT !.files = files] : files \in SourceFiles}
    /\ sent = <<>>

\* the next await of setupCollections or createRevenueSummary; the run counts
\* once the last one has returned
SetupAdvance ==
    LET pc == setup.pc + 1
        store == AfterSetupCall(db, setup.files, pc)
        done == pc = Len(SetupCalls)
    IN  /\ db' = store
        /\ setup' = [setup EXCEPT
               !.pc = IF done THEN 0 ELSE pc,
               !.runs = IF done THEN @ + 1 ELSE @,
               !.first = IF done /\ setup.runs = 0 THEN store ELSE @]

\* deleteMany({}) on the next collection
SetupDelete ==
    /\ setup.runs < MaxRuns
    /\ SetupCalls[setup.pc + 1].method = "deleteMany"
    /\ SetupAdvance
    /\ UNCHANGED <<req, stage, res, call, inflight, conn, walk, sent>>

\* insertMany(data) on the collection just emptied, insertOne for the summary
SetupInsert ==
    /\ setup.runs < MaxRuns
    /\ SetupCalls[setup.pc + 1].method # "deleteMany"
    /\ SetupAdvance
    /\ UNCHANGED <<req, stage, res, call, inflight, conn, walk, sent>>

NextSetup ==
    \/ SetupDelete
    \/ SetupInsert

SpecSetup == InitSetup /\ [][NextSetup]_vars

\* --------------------------- a paginated request while the script reloads
\* countDocuments has returned and find has not been sent: the call awaits
\* with the collection as it was counted
CountTaken(counted) == [ok |-> FALSE, value |-> counted, error |-> <<>>]

AwaitingFind == call.op # "" /\ ~call.ret.ok /\ call.failure = <<>> /\ call.ret.error = <<>>

PageOver(op, up, counted, all, tie, filters) ==
    IF op = "customersService.getCustomerAnalysis"
    THEN AnalysisResult(
             FilterAndPaginateOver(up, counted, all, tie, filters, "Quarter4Revenue"),
             filters)
    ELSE QuarterlyResult(
             FilterAndPaginateOver(up, counted, all, tie, filters, "Variance"))

\* the data base holds a complete load of the source files
InitReload ==
    /\ \E f \in SeqsUpTo(HttpCustomerValues, 2) \ {<<>>} :
           /\ db = WithCustomers(f)
           /\ setup = [NoSetup EXCEPT !.files = FilesOf(WithCustomers(f))]
    /\ req = NoRequest
    /\ stage = "idle"
    /\ res = NoResponse
    /\ call = NoCall
    /\ inflight = NoneInFlight
    /\ conn = NoConnection
    /\ walk = NoWalk
    /\ sent = <<>>

\* the service awaits collection.countDocuments(query)
CountDocuments ==
    /\ call = NoCall
    /\ \E op \in PagedOps, filters \in WalkSpecs :
           call' = [op |-> op, args |-> filters, failure |-> <<>>,
                    ret |-> CountTaken(db.quarterly_revenue)]
    /\ UNCHANGED <<db, req, stage, res, inflight, conn, walk, setup, sent>>

\* the service awaits find(query).sort().skip().limit().toArray() and returns
FindPage ==
    /\ AwaitingFind
    /\ \E up \in BOOLEAN : \E tie \in Orders(up, Len(db.quarterly_revenue)) :
           call' = [call EXCEPT
               !.failure = FetchError(up),
               !.ret = PageOver(call.op, up, call.ret.value,
                                db.quarterly_revenue, tie, call.args)]
    /\ UNCHANGED <<db, req, stage, res, inflight, conn, walk, setup, sent>>

\* the caller has the page, or the error
PageReturned ==
    /\ call # NoCall
    /\ ~AwaitingFind
    /\ call' = NoCall
    /\ UNCHANGED <<db, req, stage, res, inflight, conn, walk, setup, sent>>

NextReload ==
    \/ CountDocuments
    \/ FindPage
    \/ PageReturned
    \/ SetupDelete
    \/ SetupInsert

SpecReload == InitReload /\ [][NextReload]_vars

\* =================================================================== claims
RankingOps ==
    {"countriesService.getTopCountriesByRevenue",
     "customersService.getCustomerConcentration",
     "revenueService.getTopGrowthCustomers"}

ShareOp == "countriesService.getRevenueShareByCountry"
FilterOps ==
    {"customersService.getCustomerAnalysis", "revenueService.getCustomerQuarterlyData"}

\* the collection an operation reads
CollectionOf(op) ==
    CASE op \in {"countriesService.getTopCountriesByRevenue", ShareOp} -> db.countries
      [] op = "customersService.getCustomerConcentration" -> db.customer_concentration
      [] op = "regionsService.getRegionsSummary" -> db.regions
      [] OTHER -> db.quarterly_revenue

\* the ranking metric of row i of a ranking result
RankMetric(op, row) ==
    CASE op = "countriesService.getTopCountriesByRevenue" -> row.yearlyRevenue
      [] op = "customersService.getCustomerConcentration" -> row.totalRevenue
      [] OTHER -> row.variance

Returned == call.ret.ok

TotalYearlyRevenue(docs) ==
    SumSeq([i \in 1..Len(docs) |-> OrZero(docs[i].YearlyRevenue)])

\* ----------------------------------------------------------------------- C1
\* C1: for every collection and every limit >= 0, limit 0 included, a ranking
\* operation returns exactly min(limit, number of records) records, in
\* non-increasing order of the ranking metric.
C1_RankingReturnsMinLimitSorted ==
    (call.op \in RankingOps /\ Returned /\ call.args.limit >= 0) =>
        LET rows == call.ret.value
        IN  /\ Len(rows) = Min(call.args.limit, Len(CollectionOf(call.op)))
            /\ \A i \in 1..(Len(rows) - 1) :
                   RankMetric(call.op, rows[i]) >= RankMetric(call.op, rows[i + 1])

\* ----------------------------------------------------------------------- C2
\* C2: whatever the limit query parameter is (absent, not a number, zero,
\* negative, positive), the limit the controller hands to the service is a
\* positive integer.
C2_HandedLimitIsPositive ==
    (stage = "responded" /\ "limit" \in DOMAIN call.args) => call.args.limit >= 1

\* ----------------------------------------------------------------------- C3
\* a percentage with two decimals, in hundredths of a percent
Hundredths(x) == (x.n * 100) \div x.d

SumOfPercentages(rows) == SumSeq([i \in 1..Len(rows) |-> Hundredths(rows[i].percentage)])

ShareReturned == call.op = ShareOp /\ Returned

\* C3: for a non-empty country collection whose total yearly revenue is > 0
\* and every limit, the percentages of getRevenueShareByCountry (head and
\* Others) sum to 100 within 0.01 times the number of returned entries.
C3_SharesSumTo100 ==
    (ShareReturned /\ db.countries # <<>> /\ TotalYearlyRevenue(db.countries) > 0) =>
        /\ \A i \in 1..Len(call.ret.value) : call.ret.value[i].percentage.t = "real"
        /\ Abs(SumOfPercentages(call.ret.value) - 10000) <= Len(call.ret.value)

\* a share with an Others entry whose rounded percentages do not add up to
\* 100.00 exactly
C3_Witness ==
    /\ ShareReturned
    /\ TotalYearlyRevenue(db.countries) > 0
    /\ Len(call.ret.value) >= 3
    /\ call.ret.value[Len(call.ret.value)].countryName = "Others"
    /\ SumOfPercentages(call.ret.value) # 10000

\* ----------------------------------------------------------------------- C4
Zero == Real(0, 1)

\* C4: when the total of the metric is 0, every percentage returned by
\* getRevenueShareByCountry (head and Others) and by getRegionsSummary is
\* exactly 0, never NaN or infinite; so are the three class percentages of
\* getCustomerStatistics when there is no customer.
C4_ZeroTotalGivesZeroPercent ==
    /\ (ShareReturned /\ TotalYearlyRevenue(db.countries) = 0) =>
           \A i \in 1..Len(call.ret.value) : call.ret.value[i].percentage = Zero
    /\ (call.op = "regionsService.getRegionsSummary" /\ Returned
            /\ TotalYearlyRevenue(db.regions) = 0) =>
           \A i \in 1..Len(call.ret.value.regions) :
               call.ret.value.regions[i].percentage = Zero
    /\ (call.op = "customersService.getCustomerStatistics" /\ Returned
            /\ db.quarterly_revenue = <<>>) =>
           /\ call.ret.value.growthPercentage = DoubleOfNat(0)
           /\ call.ret.value.declinePercentage = DoubleOfNat(0)
           /\ call.ret.value.noChangePercentage = DoubleOfNat(0)

\* a share over countries with revenues that cancel out, Others included
C4_Witness ==
    /\ ShareReturned
    /\ Len(db.countries) >= 2
    /\ TotalYearlyRevenue(db.countries) = 0
    /\ \E i \in 1..Len(db.countries) : OrZero(db.countries[i].YearlyRevenue) # 0
    /\ call.ret.value # <<>>
    /\ call.ret.value[Len(call.ret.value)].countryName = "Others"

\* ----------------------------------------------------------------------- C5
HasOthers(rows) == rows # <<>> /\ rows[Len(rows)].countryName = "Others"

SumOfRevenues(rows) == SumSeq([i \in 1..Len(rows) |-> rows[i].revenue])

\* C5: getRevenueShareByCountry emits an entry labelled Others exactly when
\* there are more records than limit; it is the last entry, the head before it
\* is in descending order, and head revenues plus Others revenue equal the
\* total revenue of all records.
C5_OthersIffMoreThanLimit ==
    ShareReturned =>
        LET rows == call.ret.value
            head == IF HasOthers(rows) THEN SubSeq(rows, 1, Len(rows) - 1) ELSE rows
        IN  /\ HasOthers(rows) <=> Len(db.countries) > call.args.limit
            /\ \A i \in 1..Len(head) : head[i].countryName # "Others"
            /\ \A i \in 1..(Len(head) - 1) : head[i].revenue >= head[i + 1].revenue
            /\ SumOfRevenues(rows) = TotalYearlyRevenue(db.countries)
            /\ HasOthers(rows) =>
                   \A i \in 1..Len(head) :
                       Cardinality({j \in 1..Len(db.countries) :
                           OrZero(db.countries[j].YearlyRevenue) > head[i].revenue}) < i

\* the scenario A 100, B 300, C 200 with limit 2: B, C, then Others 100
C5_Witness ==
    /\ ShareReturned
    /\ db.countries = SampleDb.countries
    /\ call.args.limit = 2
    /\ Len(call.ret.value) = 3
    /\ call.ret.value[1].countryName = "B"
    /\ call.ret.value[2].countryName = "C"
    /\ call.ret.value[3] = [countryName |-> "Others", revenue |-> 100,
                            percentage |-> Real(1667, 100),
                            formattedPercentage |-> <<"1", "6", ".", "6", "7", "%">>]

\* ----------------------------------------------------------------------- C6
\* n/d (d > 0) rounded to the nearest integer, a tie going away from zero
RoundHalfAwayFromZero(n, d) ==
    (IF n < 0 THEN -1 ELSE 1) * ((2 * Abs(n) + d) \div (2 * d))

\* C6: each percentage of the share computation is (value / total) * 100
\* rounded to 2 decimals, a tie going away from zero, for every value,
\* negative ones included.
C6_PercentageRoundsHalfAwayFromZero ==
    (ShareReturned /\ TotalYearlyRevenue(db.countries) > 0) =>
        \A i \in 1..Len(call.ret.value) :
            call.ret.value[i].percentage =
                Real(RoundHalfAwayFromZero(call.ret.value[i].revenue * 10000,
                                           TotalYearlyRevenue(db.countries)), 100)

\* ----------------------------------------------------------------------- C7
\* the filter predicate on a result row, and on a document of the collection
KeepsRow(filters, row) ==
    /\ filters.minQ4Revenue <= 0 \/ row.q4Revenue >= filters.minQ4Revenue
    /\ ~filters.positiveGrowthOnly \/ row.variance > 0

KeepsDoc(filters, doc) ==
    /\ filters.minQ4Revenue <= 0 \/ OrZero(doc.Quarter4Revenue) >= filters.minQ4Revenue
    /\ ~filters.positiveGrowthOnly \/ OrZero(doc.Variance) > 0

CountKept(filters, docs) ==
    Cardinality({i \in 1..Len(docs) : KeepsDoc(filters, docs[i])})

\* C7: for every filter given to getCustomerAnalysis or
\* getCustomerQuarterlyData, every returned record satisfies
\* (minQ4Revenue <= 0 or Q4 revenue >= minQ4Revenue) and (positiveGrowthOnly
\* is false or variance > 0), and totalItems is the number of records of the
\* whole collection that satisfy it, whatever the page and the page size.
C7_FilterPredicateHolds ==
    (call.op \in FilterOps /\ Returned) =>
        /\ \A i \in 1..Len(call.ret.value.customers) :
               KeepsRow(call.args, call.ret.value.customers[i])
        /\ call.ret.value.pagination.totalItems =
               CountKept(call.args, db.quarterly_revenue)

\* both filters active, a customer exactly at the threshold, some customers
\* filtered out and the page shorter than the filtered set
C7_Witness ==
    /\ call.op = "customersService.getCustomerAnalysis"
    /\ Returned
    /\ call.args.minQ4Revenue = 150
    /\ \E i \in 1..Len(db.quarterly_revenue) :
           db.quarterly_revenue[i].Quarter4Revenue = Num(150)
    /\ call.ret.value.customers # <<>>
    /\ Len(call.ret.value.customers) < call.ret.value.pagination.totalItems
    /\ call.ret.value.pagination.totalItems < Len(db.quarterly_revenue)

\* ----------------------------------------------------------------------- C8
AnalysisResponded == stage = "responded" /\ req.path = "/api/customers/analysis"

FetchWorked == call.ret.error # FetchFailed

\* C8: GET /api/customers/analysis?positiveGrowthOnly=true, through
\* sanitizeQuery, the controller and the service, returns only customers
\* whose variance is > 0, and totalItems counts only those customers.
C8_PositiveGrowthOnlyApplied ==
    (AnalysisResponded /\ IsTrueText(req.originalUrl.positiveGrowthOnly)
         /\ res.success) =>
        /\ \A i \in 1..Len(res.data) : res.data[i].variance > 0
        /\ res.pagination.totalItems <=
               Cardinality({i \in 1..Len(db.quarterly_revenue) :
                   OrZero(db.quarterly_revenue[i].Variance) > 0})

\* ----------------------------------------------------------------------- C9
\* ceil(a / b) for b > 0
CeilDiv(a, b) == -((-a) \div b)

\* the number of records a page holds: the driver sends a negative limit as
\* its absolute value
PageSize == Abs(call.args.limit)

LastPage == CeilDiv(CountKept(call.args, db.quarterly_revenue), PageSize)

\* the analysis endpoint was asked for a page after the last one
BeyondLastPage ==
    /\ AnalysisResponded
    /\ FetchWorked
    /\ call.args.limit # 0
    /\ call.args.page > LastPage

EmptyPageAnswer ==
    /\ res.status = 200
    /\ res.success
    /\ res.data = <<>>
    /\ res.pagination.hasNextPage = FALSE
    /\ res.pagination.nextPage = Null

\* C9: a page beyond the last page of the filtered set is answered with 200,
\* an empty record list, hasNextPage false and nextPage null, not an error.
C9_PageBeyondLastIsEmpty == BeyondLastPage => EmptyPageAnswer

\* with a positive page size the answer is the empty page, and totalPages is
\* the number of the last page
EmptyPageForPositiveSize ==
    (BeyondLastPage /\ call.args.limit >= 1) =>
        /\ EmptyPageAnswer
        /\ res.pagination.totalPages = Num(LastPage)

\* ---------------------------------------------------------------------- C10
\* the page the request asked for is a number below 1
AskedPageBelowOne ==
    /\ parseInt(req.originalUrl.page).t = "number"
    /\ parseInt(req.originalUrl.page).v < 1

\* C10: a page number below 1 (zero or negative) is treated as page 1: the
\* request does not fail and the response is the first page, currentPage = 1.
C10_PageBelowOneIsPageOne ==
    (AnalysisResponded /\ FetchWorked /\ AskedPageBelowOne) =>
        /\ res.status = 200
        /\ res.pagination.currentPage = 1

\* ---------------------------------------------------------------------- C11
\* ceil(total / size) as a JavaScript number, for any integer size
CeilOfQuotient(total, size) ==
    IF size > 0 THEN Num(CeilDiv(total, size))
    ELSE IF size < 0 THEN Num(CeilDiv(-total, -size))
    ELSE IF total = 0 THEN NaN
    ELSE IF total > 0 THEN Infinity ELSE NegInfinity

\* page < totalPages as JavaScript compares a number with totalPages
PageBefore(page, totalPages) ==
    \/ totalPages.t = "number" /\ page < totalPages.v
    \/ totalPages.t = "Infinity"

\* C11: in every paginated response totalPages = ceil(totalItems /
\* itemsPerPage), hasNextPage <=> currentPage < totalPages, hasPrevPage <=>
\* currentPage > 1, nextPage is currentPage + 1 when hasNextPage and null
\* otherwise, prevPage is currentPage - 1 when hasPrevPage and null otherwise.
C11_PaginationBlockConsistent ==
    (AnalysisResponded /\ res.success) =>
        LET pg == res.pagination
        IN  /\ pg.totalPages = CeilOfQuotient(pg.totalItems, pg.itemsPerPage)
            /\ pg.hasNextPage <=> PageBefore(pg.currentPage, pg.totalPages)
            /\ pg.hasPrevPage <=> pg.currentPage > 1
            /\ pg.nextPage = IF pg.hasNextPage THEN Num(pg.currentPage + 1) ELSE Null
            /\ pg.prevPage = IF pg.hasPrevPage THEN Num(pg.currentPage - 1) ELSE Null

\* page 2 of 3: a page before and a page after
C11_Witness ==
    /\ AnalysisResponded
    /\ res.success
    /\ res.pagination.currentPage = 2
    /\ res.pagination.totalPages = Num(3)
    /\ res.pagination.hasNextPage
    /\ res.pagination.hasPrevPage
    /\ res.pagination.nextPage = Num(3)
    /\ res.pagination.prevPage = Num(1)

\* ---------------------------------------------------------------------- C12
StatsReturned == call.op = "customersService.getCustomerStatistics" /\ Returned

\* the sum of the three class percentages: of their exact values, and as
\* JavaScript adds them, (growth + decline) + noChange
ExactSumOfClasses(st) ==
    LimbAdd(LimbAdd(st.growthPercentage.limbs, st.declinePercentage.limbs, 0),
            st.noChangePercentage.limbs, 0)

JsSumOfClasses(st) ==
    RoundToDouble(
        LimbAdd(RoundToDouble(LimbAdd(st.growthPercentage.limbs,
                                      st.declinePercentage.limbs, 0), FALSE),
                st.noChangePercentage.limbs, 0),
        FALSE)

Hundred == DoubleOfNat(100).limbs

\* 2^-32, below 1e-9
Tolerance == <<0, 0, 1, 0, 0>>

WithinTolerance(x, y) ==
    /\ LimbLeq(x, LimbAdd(y, Tolerance, 0))
    /\ LimbLeq(y, LimbAdd(x, Tolerance, 0))

\* the three classes cover every customer once
ClassesPartition(st) ==
    /\ st.totalCustomers = Len(db.quarterly_revenue)
    /\ st.customersWithGrowth + st.customersWithDecline + st.customersNoChange
           = st.totalCustomers

AllZeroWhenEmpty(st) ==
    st.totalCustomers = 0 =>
        /\ st.growthPercentage = DoubleOfNat(0)
        /\ st.declinePercentage = DoubleOfNat(0)
        /\ st.noChangePercentage = DoubleOfNat(0)

\* C12 as stated: the class counts of getCustomerStatistics sum to
\* totalCustomers, and the three percentages sum to 100 (as exact values or as
\* JavaScript adds them) when totalCustomers > 0 and are all 0 when it is 0.
C12_ClassesSumExactly ==
    StatsReturned =>
        LET st == call.ret.value
        IN  /\ ClassesPartition(st)
            /\ AllZeroWhenEmpty(st)
            /\ st.totalCustomers > 0 =>
                   \/ ExactSumOfClasses(st) = Hundred
                   \/ JsSumOfClasses(st) = Hundred

\* C12 amended: the class counts sum to totalCustomers, and the three
\* percentages sum to 100 within 2^-32 (less than 1e-9) when totalCustomers
\* > 0 and are all 0 when it is 0.
C12_ClassesSumWithinRounding ==
    StatsReturned =>
        LET st == call.ret.value
        IN  /\ ClassesPartition(st)
            /\ AllZeroWhenEmpty(st)
            /\ st.totalCustomers > 0 =>
                   /\ WithinTolerance(ExactSumOfClasses(st), Hundred)
                   /\ WithinTolerance(JsSumOfClasses(st), Hundred)

\* three customers, one in each class, the unchanged one having no Variance:
\* each percentage is the double nearest to 100/3 and the sum is not 100
C12_Witness ==
    /\ StatsReturned
    /\ call.ret.value.totalCustomers = 3
    /\ call.ret.value.customersWithGrowth = 1
    /\ call.ret.value.customersWithDecline = 1
    /\ call.ret.value.customersNoChange = 1
    /\ \E i \in 1..3 : db.quarterly_revenue[i].Variance = Null
    /\ ExactSumOfClasses(call.ret.value) # Hundred

\* ------------------------------------------------------------ C14: defaults
\* the default each route documents for limit
DocumentedDefault ==
    [p \in {"/api/countries/top-revenue", "/api/countries/revenue-share",
            "/api/customers/concentration", "/api/customers/analysis"} |->
        CASE p = "/api/countries/top-revenue" -> 10
          [] p = "/api/countries/revenue-share" -> 8
          [] p = "/api/customers/concentration" -> 20
          [] p = "/api/customers/analysis" -> 50]

\* limit as it was sent is absent, not numeric, or 0
NoPositiveLimitSent ==
    \/ req.originalUrl.limit = Undefined
    \/ parseInt(req.originalUrl.limit) = NaN
    \/ parseInt(req.originalUrl.limit) = Num(0)

\* C14: when limit is absent, not numeric or 0, the service is handed the
\* default its route documents (10, 8, 20, 50) after sanitizeQuery and the
\* controller have run.
C14_DocumentedDefaultIsPassed ==
    (stage = "responded" /\ req.path \in DOMAIN DocumentedDefault
        /\ NoPositiveLimitSent)
        => call.args.limit = DocumentedDefault[req.path]

\* the default is passed when limit is absent
C14_DefaultWhenAbsent ==
    (stage = "responded" /\ req.path \in DOMAIN DocumentedDefault
        /\ req.originalUrl.limit = Undefined)
        => call.args.limit = DocumentedDefault[req.path]

\* GET /api/countries/revenue-share?limit=0 has been answered
C14_Witness ==
    /\ stage = "responded"
    /\ req.path = "/api/countries/revenue-share"
    /\ req.originalUrl.limit = Str(<<"0">>)
    /\ call.args.limit = 10

\* ---------------------------------------------------------------------- C17
GrowthReturned ==
    /\ call.op = "revenueService.getTopGrowthCustomers"
    /\ Returned
    /\ call.args.limit > 0

\* the customers of the collection that carry no Variance
WithoutVariance ==
    {db.quarterly_revenue[i].CustomerName :
        i \in {j \in 1..Len(db.quarterly_revenue) :
                   db.quarterly_revenue[j].Variance = Null}}

\* C17: getTopGrowthCustomers orders a record with no Variance as if its
\* variance were 0: after every returned record with variance > 0, before every
\* returned record with variance < 0, and it is left out by limit only when no
\* record with variance < 0 is returned.
C17_MissingVarianceRanksAsZero ==
    GrowthReturned =>
        LET rows == call.ret.value
            names == {rows[i].customerName : i \in 1..Len(rows)}
        IN  /\ \A i, j \in 1..Len(rows) :
                   (i < j /\ rows[i].customerName \in WithoutVariance)
                       => rows[j].variance <= 0
            /\ \A i, j \in 1..Len(rows) :
                   (i < j /\ rows[j].customerName \in WithoutVariance)
                       => rows[i].variance >= 0
            /\ (WithoutVariance \ names # {})
                   => \A i \in 1..Len(rows) : rows[i].variance >= 0

\* what does hold: a record with no Variance comes after every record that
\* has one
C17_MissingVarianceRanksLast ==
    GrowthReturned =>
        LET rows == call.ret.value
        IN  \A i, j \in 1..Len(rows) :
                (i < j /\ rows[i].customerName \in WithoutVariance)
                    => rows[j].customerName \in WithoutVariance

\* limit 1 over a customer with variance -100 and one with no Variance: the
\* customer with variance -100 is the one returned
C17_Witness ==
    /\ GrowthReturned
    /\ call.args.limit = 1
    /\ Len(db.quarterly_revenue) = 2
    /\ WithoutVariance # {}
    /\ Len(call.ret.value) = 1
    /\ call.ret.value[1].variance < 0

\* ---------------------------------------------------------------------- C13
ByNamePaths ==
    {"/api/countries/:countryName", "/api/customers/:customerName",
     "/api/regions/:regionName"}

ByNameAnswered == stage = "responded" /\ req.path \in ByNamePaths

\* a record of the collection the lookup reads carries the requested name
NameCarried ==
    CASE req.path = "/api/countries/:countryName" ->
             \E i \in 1..Len(db.countries) : db.countries[i].Country = req.params.name
      [] req.path = "/api/customers/:customerName" ->
             \E i \in 1..Len(db.quarterly_revenue) :
                 db.quarterly_revenue[i].CustomerName = req.params.name
      [] req.path = "/api/regions/:regionName" ->
             \E i \in 1..Len(db.regions) : db.regions[i].Region = req.params.name

FetchOfCallFailed == call.failure # <<>>

\* C13: a by-name lookup whose fetch works answers 200 when a record carries
\* the requested name and 404 with success = false when none does; a lookup
\* whose fetch fails answers 500 with success = false, never 404.
C13_ByNameLookupStatus ==
    ByNameAnswered =>
        /\ FetchOfCallFailed => (res.status = 500 /\ ~res.success)
        /\ (~FetchOfCallFailed /\ NameCarried) => (res.status = 200 /\ res.success)
        /\ (~FetchOfCallFailed /\ ~NameCarried) => (res.status = 404 /\ ~res.success)
        /\ res.status = 404 => ~NameCarried

\* GET /api/regions/Z over regions A and B has been answered 404
C13_Witness ==
    /\ ByNameAnswered
    /\ req.path = "/api/regions/:regionName"
    /\ req.params.name = "Z"
    /\ Len(db.regions) = 2
    /\ res.status = 404
    /\ res.error = NotFoundMessage("Region", "Z")

\* a by-name lookup whose fetch failed while no record carries the name
C13_FailureWitness ==
    /\ ByNameAnswered
    /\ FetchOfCallFailed
    /\ ~NameCarried
    /\ res.status = 500

\* ---------------------------------------------------------------------- C15
\* the request being served is one test-apis.js sends
TestScriptSent ==
    \E r \in TestScriptRequests :
        r.method = req.method /\ r.url = req.url /\ r.originalUrl = req.originalUrl

Populated == \A c \in DOMAIN db : db[c] # <<>>

\* no fetch of the request failed
StoreReached ==
    /\ call.failure = <<>>
    /\ inflight.failure = <<>>

TestScriptAnswered ==
    stage = "responded" /\ TestScriptSent /\ Populated /\ StoreReached

\* C15: over a reachable store whose collections are all populated, every
\* endpoint test-apis.js lists is dispatched to a registered handler and is
\* answered with success = true.
C15_TestScriptEndpointsSucceed ==
    TestScriptAnswered => (req.path # NoRoute.path /\ res.success)

\* the same for the endpoints of the script other than /analytics/metrics
C15_RoutedEndpointsSucceed ==
    (TestScriptAnswered /\ req.url # <<"analytics", "metrics">>)
        => (req.path # NoRoute.path /\ res.success /\ res.status = 200)

\* GET /api/analytics/metrics has been answered by notFound
C15_Witness ==
    /\ TestScriptAnswered
    /\ req.url = <<"analytics", "metrics">>
    /\ req.path = NoRoute.path
    /\ res.status = 404
    /\ ~res.success

\* ---------------------------------------------------------------------- C16
BridgeAnswered ==
    /\ stage = "responded"
    /\ req.path = "/api/revenue/bridge"
    /\ res.success

\* the n of ?limit=n when it is a positive integer, 0 otherwise
SentLimit ==
    IF req.originalUrl.limit.t = "string"
           /\ req.originalUrl.limit.v # <<>>
           /\ DigitPrefixLen(req.originalUrl.limit.v) = Len(req.originalUrl.limit.v)
    THEN DigitsToNat(req.originalUrl.limit.v)
    ELSE 0

\* C16: GET /api/revenue/bridge?limit=n returns at most n records, for every
\* positive integer n.
C16_BridgeReturnsAtMostLimit ==
    (BridgeAnswered /\ SentLimit > 0) => Len(res.data) <= SentLimit

\* what holds: the answer has four records, or none over an empty collection
C16_BridgeReturnsFourOrNone ==
    BridgeAnswered => Len(res.data) = (IF db.revenue_bridge = <<>> THEN 0 ELSE 4)

\* GET /api/revenue/bridge?limit=1 has been answered with four records
C16_Witness ==
    /\ BridgeAnswered
    /\ req.originalUrl.limit = Str(<<"1">>)
    /\ call.args.limit = 1
    /\ Len(res.data) = 4

\* ---------------------------------------------------------------------- C18
\* C18: no step of any request (received, sanitized, dispatched, answered by
\* any handler, finished) changes the content of any collection.
C18_RequestsLeaveStoreUnchanged == [][db' = db]_vars

\* the six collections are the ones the store started with, in every state
\* some request has been answered in
C18_Witness ==
    /\ stage = "responded"
    /\ call.op = "revenueService.getRevenueSummary"
    /\ DriverCalls(call.op) = {DriverCall("revenue_summary", "findOne")}
    /\ res.status = 200
    /\ db = SampleDb

\* ---------------------------------------------------------------------- C19
\* a fetch of the request being answered failed
FetchOfRequestFailed == stage = "responded" /\ call.failure # <<>>

Dashboard == "analyticsService.getDashboardSummary"

\* C19: when a fetch fails inside a service operation the operation throws
\* and returns nothing, the error it throws being the error of the fetch (for
\* the dashboard, the error of the aggregate that rejected first), and the
\* request is answered with status 500, success = false and that error; 404 is
\* answered only by a by-name lookup that found no record and by notFound.
C19_FetchFailureIsRethrownAs500 ==
    /\ FetchOfRequestFailed =>
           /\ ~call.ret.ok
           /\ call.ret.value = <<>>
           /\ call.op # Dashboard => call.ret.error = call.failure
           /\ call.op = Dashboard =>
                  /\ call.ret.error = inflight.rejection
                  /\ \E i \in 1..5 :
                         /\ inflight.promises[i].state = "rejected"
                         /\ inflight.promises[i].ret.error = inflight.rejection
           /\ res.status = 500
           /\ ~res.success
           /\ res.error = call.ret.error
           /\ res.data = <<>>
    /\ (stage = "responded" /\ res.status = 404) =>
           \/ req.path = NoRoute.path
           \/ /\ req.path \in ByNamePaths
              /\ call.failure = <<>>
              /\ ~NameCarried
    /\ stage # "responded" => res = NoResponse

\* C19, second part: a fetch is issued once.  An aggregate of the dashboard
\* that has settled is not started again while the request is served, and a
\* request that has been answered is not answered again.
C19_NoFetchIsIssuedAgain ==
    [][/\ \A i \in 1..5 :
              inflight.promises[i].state \in {"fulfilled", "rejected"}
                  => \/ inflight'.promises[i] = inflight.promises[i]
                     \/ stage' = "idle"
       /\ stage = "responded" => (stage' = "idle" /\ call' = NoCall)]_vars

\* GET /api/revenue/summary whose fetch was refused has been answered 500
C19_Witness ==
    /\ FetchOfRequestFailed
    /\ call.op = "revenueService.getRevenueSummary"
    /\ call.failure = FetchFailed
    /\ call.ret.error = FetchFailed
    /\ res.status = 500
    /\ res.error = FetchFailed

\* ---------------------------------------------------------------------- C20
DashboardServed == req.path = "/api/analytics/dashboard" /\ stage # "idle"

DashboardStates == {inflight.promises[i].state : i \in 1..5}

\* C20: the five aggregates of getDashboardSummary are started together,
\* before any of them settles, and outside the dashboard none is in flight; the
\* dashboard is answered 200, with the five results the aggregates returned,
\* only when all five were fulfilled; when one was rejected, the missing
\* revenue summary document included, it is answered 500 with success = false
\* and no data.
C20_DashboardAllOrNothing ==
    /\ "none" \in DashboardStates => DashboardStates = {"none"}
    /\ ~DashboardServed => inflight = NoneInFlight
    /\ (DashboardServed /\ stage = "responded") =>
           /\ "none" \notin DashboardStates
           /\ inflight.rejection = <<>> =>
                  /\ DashboardStates = {"fulfilled"}
                  /\ res.status = 200
                  /\ res.success
                  /\ res.data = [revenue |-> inflight.promises[1].ret.value,
                                 topCountries |-> inflight.promises[2].ret.value,
                                 topCustomers |-> inflight.promises[5].ret.value,
                                 customerStats |-> inflight.promises[3].ret.value,
                                 regions |-> inflight.promises[4].ret.value]
           /\ "rejected" \in DashboardStates =>
                  /\ inflight.rejection # <<>>
                  /\ res.status = 500
                  /\ ~res.success
                  /\ res.data = <<>>
                  /\ res.error = inflight.rejection

\* the five aggregates are pending together
C20_AllPending ==
    /\ DashboardServed
    /\ DashboardStates = {"pending"}

\* four aggregates were fulfilled and the revenue summary document is
\* missing: the dashboard has been answered 500 without data
C20_Witness ==
    /\ DashboardServed
    /\ stage = "responded"
    /\ db.revenue_summary = <<>>
    /\ inflight.promises[1].state = "rejected"
    /\ \A i \in 2..5 : inflight.promises[i].state = "fulfilled"
    /\ inflight.failure = <<>>
    /\ res.status = 500
    /\ res.data = <<>>

\* ---------------------------------------------------------------------- C21
\* getCustomerAnalysis has returned the whole collection, unfiltered
WholeAnalysisReturned ==
    /\ call.op = "customersService.getCustomerAnalysis"
    /\ Returned
    /\ call.args.minQ4Revenue <= 0
    /\ ~call.args.positiveGrowthOnly
    /\ Len(call.ret.value.customers) = Len(db.quarterly_revenue)

\* the number of returned records that carry the label
Labelled(label) ==
    Cardinality({i \in 1..Len(call.ret.value.customers) :
                     call.ret.value.customers[i].growthStatus = label})

\* what getCustomerStatistics returns over the same collection
StatisticsOfStore == customersService_getCustomerStatistics(TRUE, db.quarterly_revenue).value

\* C21: over the unfiltered collection the numbers of records that
\* getCustomerAnalysis labels positive, negative and neutral are the
\* customersWithGrowth, customersWithDecline and customersNoChange of
\* getCustomerStatistics.
C21_LabelsAgreeWithStatistics ==
    WholeAnalysisReturned =>
        /\ Labelled("positive") = StatisticsOfStore.customersWithGrowth
        /\ Labelled("negative") = StatisticsOfStore.customersWithDecline
        /\ Labelled("neutral") = StatisticsOfStore.customersNoChange

\* three customers, one of each label, the neutral one having no Variance or
\* variance 0
C21_Witness ==
    /\ WholeAnalysisReturned
    /\ Len(db.quarterly_revenue) = 3
    /\ Labelled("positive") = 1
    /\ Labelled("negative") = 1
    /\ Labelled("neutral") = 1

\* ---------------------------------------------------------------------- C22
\* the fixed paths that a by-name pattern of the same router also matches,
\* with the operation their own handler calls
FixedRoutes ==
    { [url |-> <<"regions", "revenue">>, path |-> "/api/regions/revenue",
       op |-> "regionsService.getRegionsSummary"],
      [url |-> <<"customers", "statistics">>, path |-> "/api/customers/statistics",
       op |-> "customersService.getCustomerStatistics"],
      [url |-> <<"customers", "concentration">>, path |-> "/api/customers/concentration",
       op |-> "customersService.getCustomerConcentration"],
      [url |-> <<"customers", "analysis">>, path |-> "/api/customers/analysis",
       op |-> "customersService.getCustomerAnalysis"],
      [url |-> <<"countries", "top-revenue">>, path |-> "/api/countries/top-revenue",
       op |-> "countriesService.getTopCountriesByRevenue"],
      [url |-> <<"countries", "revenue-share">>, path |-> "/api/countries/revenue-share",
       op |-> "countriesService.getRevenueShareByCountry"] }

ByNameOps ==
    {"countriesService.getCountryByName", "customersService.getCustomerByName",
     "regionsService.getRegionByName"}

\* C22: a GET on one of the fixed paths is always matched to its own route
\* and answered by its own handler, and no by-name lookup is ever made with
\* the last word of such a path as the name.
C22_FixedPathsWinOverByName ==
    /\ \A r \in FixedRoutes :
           (req.method = "GET" /\ req.url = r.url) =>
               /\ req.path = r.path
               /\ stage = "responded" => call.op = r.op
    /\ call.op \in ByNameOps =>
           \A r \in FixedRoutes : call.args.name # r.url[2]

\* GET /api/regions/revenue has been answered by getRegionsRevenue, although
\* /:regionName matches it too
C22_Witness ==
    /\ stage = "responded"
    /\ req.url = <<"regions", "revenue">>
    /\ Matches(Route("GET", <<"regions", ":regionName">>, "", FALSE), "GET", req.url)
    /\ call.op = "regionsService.getRegionsSummary"
    /\ res.status = 200

\* ---------------------------------------------------------------------- C23
\* the clients that have been connected and not closed
OpenClients == {c \in 1..Len(conn.clients) : conn.clients[c] = "connected"}

\* a closeDatabase has just completed and no other call is in progress
ClosedAndQuiet ==
    \E k \in Callers :
        /\ conn.pc[k] = "closed"
        /\ \A j \in Callers \ {k} : conn.pc[j] = "idle"

\* C23: after any sequence of getDatabase, getCollection and closeDatabase
\* calls, overlapping ones included, at most one client is connected and not
\* closed, and after a closeDatabase no client is open.
C23_SingleSharedClient ==
    /\ Cardinality(OpenClients) <= 1
    /\ ClosedAndQuiet => OpenClients = {}

\* what holds: the handle the module returns is that of a client it created,
\* and the module's client is the one created last or null
C23_ClientIsTheLastCreated ==
    /\ conn.client \in {0, Len(conn.clients)}
    /\ conn.db \in 0..Len(conn.clients)

\* two calls overlapped while no client was connected: two clients are open
\* and the module holds only the second
C23_Witness ==
    /\ conn.clients = <<"connected", "connected">>
    /\ conn.client = 2
    /\ \A k \in Callers : conn.pc[k] \in {"idle", "returned"}

\* ---------------------------------------------------------------------- C24
\* the client has read pages 1 to totalPages
AllPagesRead == walk # NoWalk /\ Len(walk.pages) = walk.totalPages

\* the rows of all pages, page after page
RECURSIVE Concat(_)
Concat(pages) ==
    IF pages = <<>> THEN <<>> ELSE Head(pages) \o Concat(Tail(pages))

\* how often customer name occurs among rows
TimesReturned(rows, name) ==
    Cardinality({i \in 1..Len(rows) : rows[i].customerName = name})

\* the names of the stored customers that satisfy the filter of the walk
MatchingNames ==
    LET found == MongoFilter(db.quarterly_revenue, BuildQuery(walk.filters))
    IN  {found[i].CustomerName : i \in 1..Len(found)}

\* the metric by which the operation of the walk sorts
PageMetric(row) ==
    IF walk.op = "customersService.getCustomerAnalysis"
    THEN row.q4Revenue ELSE row.variance

EachPageWithinSize ==
    \A p \in 1..Len(walk.pages) : Len(walk.pages[p]) <= walk.filters.limit

PagesDescend ==
    \A p \in 1..(Len(walk.pages) - 1) :
        \A i \in 1..Len(walk.pages[p]), j \in 1..Len(walk.pages[p + 1]) :
            PageMetric(walk.pages[p][i]) >= PageMetric(walk.pages[p + 1][j])

\* C24: pages 1 to totalPages, read one after the other with a fixed filter
\* and page size, hold every record that satisfies the filter exactly once,
\* also when records share the value of the sort metric; each page has at
\* most itemsPerPage records and the metrics of page p are >= those of
\* page p + 1.
C24_PagesPartitionTheMatches ==
    AllPagesRead =>
        /\ \A name \in MatchingNames :
               TimesReturned(Concat(walk.pages), name) = 1
        /\ Len(Concat(walk.pages)) = Cardinality(MatchingNames)
        /\ EachPageWithinSize
        /\ PagesDescend

\* what holds: the pages hold as many rows as records satisfy the filter,
\* none has more than itemsPerPage rows, and every row is a matching record
C24_PagesHoldAsManyRowsAsMatches ==
    AllPagesRead =>
        /\ Len(Concat(walk.pages)) = Cardinality(MatchingNames)
        /\ EachPageWithinSize
        /\ \A i \in 1..Len(Concat(walk.pages)) :
               Concat(walk.pages)[i].customerName \in MatchingNames

\* two pages of one record each were read over two customers with the same
\* Quarter 4 Revenue, and both pages hold the same customer
C24_Witness ==
    /\ AllPagesRead
    /\ walk.op = "customersService.getCustomerAnalysis"
    /\ Len(walk.pages) = 2
    /\ Len(db.quarterly_revenue) = 2
    /\ db.quarterly_revenue[1].Quarter4Revenue = db.quarterly_revenue[2].Quarter4Revenue
    /\ Len(walk.pages[1]) = 1 /\ Len(walk.pages[2]) = 1
    /\ walk.pages[1][1].customerName = walk.pages[2][1].customerName

\* ---------------------------------------------------------------------- C25
Answered == Len(sent) = 1

\* the request is being served: a handler of its chain has yet to run
BeingServed == stage \in {"received", "sanitized"}

\* a handler of the chain of req can run: its middleware, the controller of
\* its route, a step of the dashboard's aggregates, or notFound
HandlerReady ==
    \/ ENABLED SanitizeQuery
    \/ \E path \in DOMAIN Routes \ {"/api/analytics/dashboard"} : Ready(path)
    \/ ENABLED StartDashboardSummary
    \/ ENABLED SettleAggregate
    \/ ENABLED GetDashboardSummary
    \/ ENABLED NotFound

\* C25: every request that reaches the application is answered with exactly
\* one response: never two, none while it is being served, one when the
\* controller, notFound and errorHandler, or the catch block of a response
\* builder has run; and a request that is being served always has a handler
\* that can run, so that none is left without a response.
C25_ExactlyOneResponse ==
    /\ Len(sent) <= 1
    /\ stage = "responded" <=> Answered
    /\ BeingServed => HandlerReady

\* a paginated response could not be built and the request was answered once,
\* with status 500
C25_Witness ==
    /\ stage = "responded"
    /\ req.path = "/api/customers/analysis"
    /\ call.ret.ok
    /\ res = errorResponse(500, "Error creating paginated response", <<>>)
    /\ sent = <<500>>

\* an unmatched route was answered once, with status 404
C25_NotFoundWitness ==
    /\ stage = "responded"
    /\ req.path = NoRoute.path
    /\ sent = <<404>>

\* ---------------------------------------------------------------------- C26
AnalyzeAnswered == stage = "responded" /\ req.path = "/api/analytics/analyze"

\* the prompt of req is a string and is not empty
ValidPrompt == req.body.prompt.t = "string" /\ req.body.prompt.v # <<>>

\* the sections whose keywords occur in each prompt that is posted, 1 revenue
\* growth, 2 country, 3 customer concentration, 4 quarterly, 5 bridge
SectionsAsked ==
    LET p == req.body.prompt.v
    IN  CASE p = <<"hello">> -> {}
          [] p = <<"top", "Countries">> -> {2}
          [] p = <<"Q4", "revenue", "growth">> -> {1, 4}
          [] p = <<"churned", "customers">> -> {5}
          [] p = <<"customer", "concentration", "risks">> -> {3}

\* the section that pushes an insight
SectionOfInsight(insight) ==
    CASE insight.about \in {"Top 5 customers by revenue growth",
                            "Highest growth customer"} -> 1
      [] insight.about \in {"Top 5 countries by revenue",
                            "Highest revenue country"} -> 2
      [] insight.about \in {"Top 5 customers by total revenue",
                            "Customer concentration risk"} -> 3
      [] insight.about \in {"Q3 Revenue", "Q4 Revenue", "Overall growth",
                            "Variance"} -> 4
      [] OTHER -> 5

\* C26: POST /api/analytics/analyze answers 400 without calling the analysis
\* service when the prompt is missing, empty or not a string; for a valid
\* prompt the sections run in the order revenue growth, country, customer
\* concentration, quarterly, bridge, each exactly when one of its keywords
\* occurs in the lower-cased prompt, and the recommendations are non-empty if
\* and only if a section matched.
C26_AnalyzeValidatesAndRunsSections ==
    AnalyzeAnswered =>
        /\ ~ValidPrompt => res.status = 400 /\ call.op = ""
        /\ ValidPrompt =>
            /\ call.op = "analyticsService.analyzeData"
            /\ res.status = IF call.ret.ok THEN 200 ELSE 500
            /\ call.ret.ok =>
                LET analysis == call.ret.value
                    ran == [k \in 1..Len(analysis.insights) |->
                               SectionOfInsight(analysis.insights[k])]
                IN  /\ {ran[k] : k \in 1..Len(ran)} = SectionsAsked
                    /\ \A k \in 1..(Len(ran) - 1) : ran[k] <= ran[k + 1]
                    /\ analysis.recommendations # 0 <=> SectionsAsked # {}

\* a prompt typed with capitals asked for two sections, which ran in order
C26_Witness ==
    /\ AnalyzeAnswered
    /\ req.body.prompt = Str(<<"Q4", "revenue", "growth">>)
    /\ call.ret.ok
    /\ Len(call.ret.value.insights) = 6
    /\ call.ret.value.recommendations = 4

\* a prompt that is not a string was answered 400 and no service was called
C26_InvalidWitness ==
    /\ AnalyzeAnswered
    /\ req.body.prompt = Num(5)
    /\ res.status = 400
    /\ call.op = ""

\* ---------------------------------------------------------------------- C27
\* an analysis ran its bridge section over a store that has bridge records
BridgeAnalysed ==
    /\ AnalyzeAnswered
    /\ ValidPrompt
    /\ call.ret.ok
    /\ 5 \in SectionsAsked
    /\ call.ret.value.data.bridgeData # <<>>

InsightAbout(about) ==
    LET insights == call.ret.value.insights
    IN  insights[CHOOSE k \in 1..Len(insights) : insights[k].about = about]

\* the amount getRevenueBridgeData returned for a category
AmountOf(category) ==
    LET bridgeData == call.ret.value.data.bridgeData
    IN  bridgeData[CHOOSE k \in 1..Len(bridgeData) :
                       bridgeData[k].category = category].amount

BridgeCustomers ==
    {db.revenue_bridge[k].CustomerName : k \in 1..Len(db.revenue_bridge)}

\* C27: the total expansion and total churned revenue in the insights of the
\* bridge section are the 'Expansion Revenue' and 'Churned Revenue' amounts
\* that getRevenueBridgeData returns, and the names listed are names of
\* customers.
C27_BridgeInsightsMatchAmounts ==
    BridgeAnalysed =>
        /\ InsightAbout("Total expansion revenue").total
               = formatCurrency(Num(AmountOf("Expansion Revenue")))
        /\ InsightAbout("Total churned revenue").total
               = formatCurrency(Num(AmountOf("Churned Revenue")))
        /\ LET names == InsightAbout("Top 5 customers by expansion revenue").names
           IN  \A k \in 1..Len(names) :
                   names[k] # Undefined /\ names[k] \in BridgeCustomers

\* what the section does: it reads expansionRevenue, churnedRevenue and
\* customerName of the four category records, which have none of them, so
\* both totals are NaN and every listed name is undefined
C27_BridgeInsightsAreUndefined ==
    BridgeAnalysed =>
        /\ InsightAbout("Total expansion revenue").total = <<"$", "N", "a", "N">>
        /\ InsightAbout("Total churned revenue").total = <<"$", "N", "a", "N">>
        /\ InsightAbout("Top 5 customers by expansion revenue").names
               = <<Undefined, Undefined, Undefined, Undefined>>

\* the bridge section ran over records with an expansion revenue of 60 in all
C27_Witness ==
    /\ BridgeAnalysed
    /\ AmountOf("Expansion Revenue") = 60
    /\ InsightAbout("Total expansion revenue").total # <<"$", "6", "0", ".", "0", "0">>

\* ---------------------------------------------------------------------- C28
\* getRevenueBridgeData has returned for GET /api/revenue/bridge
BridgeReturned ==
    /\ stage = "responded"
    /\ call.op = "revenueService.getRevenueBridgeData"
    /\ call.ret.ok

\* the sum of a field over the stored bridge records, a missing value being 0
RECURSIVE StoredSum(_, _)
StoredSum(docs, field) ==
    IF docs = <<>> THEN 0
    ELSE (IF Head(docs)[field].t = "number" THEN Head(docs)[field].v ELSE 0)
             + StoredSum(Tail(docs), field)

\* C28: getRevenueBridgeData returns an empty list over an empty
\* revenue_bridge collection and otherwise exactly four entries in the order
\* New, Expansion, Churned, Contraction Revenue; the first two have type
\* 'positive', the last two 'negative', and the amounts of the last two are
\* the absolute values of the stored sums, never negative.
C28_BridgeHasFourFixedEntries ==
    BridgeReturned =>
        LET entries == call.ret.value
        IN  IF db.revenue_bridge = <<>> THEN entries = <<>>
            ELSE /\ [k \in 1..Len(entries) |-> entries[k].category]
                        = <<"New Revenue", "Expansion Revenue",
                            "Churned Revenue", "Contraction Revenue">>
                 /\ [k \in 1..Len(entries) |-> entries[k].type]
                        = <<"positive", "positive", "negative", "negative">>
                 /\ entries[3].amount >= 0
                 /\ entries[4].amount >= 0
                 /\ entries[3].amount
                        = Abs(StoredSum(db.revenue_bridge, "ChurnedRevenue"))
                 /\ entries[4].amount
                        = Abs(StoredSum(db.revenue_bridge, "ContractionRevenue"))

\* the stored churned revenues sum to -60 and the entry reports 60
C28_Witness ==
    /\ BridgeReturned
    /\ StoredSum(db.revenue_bridge, "ChurnedRevenue") = -60
    /\ call.ret.value[3].amount = 60

\* the collection is empty and the list returned is empty
C28_EmptyWitness ==
    /\ BridgeReturned
    /\ db.revenue_bridge = <<>>
    /\ call.ret.value = <<>>

\* ---------------------------------------------------------------------- C29
\* setupDatabase has completed n runs and is not running
SetupRan(n) == setup.runs = n /\ setup.pc = 0

\* no document occurs twice in a collection
NoDuplicates(docs) ==
    \A i, j \in 1..Len(docs) : i # j => docs[i] # docs[j]

\* the sum of a revenue over the quarterly file, a missing revenue being 0
FileTotal(field) == StoredSum(setup.files.quarterly_revenue, field)

PageServed == call.op \in PagedOps /\ call.ret.ok

\* the records of the loaded collection that satisfy the filter of the call
LoadedMatches ==
    MongoCount(setup.files.quarterly_revenue, BuildQuery(call.args))

\* C30: totalItems and the page of a paginated request come from the same
\* state of the collection, also while setupDatabase reloads it: no more
\* records are returned than totalItems, and both are those of the loaded
\* collection, never of an emptied one.
C30_CountAndPageFromOneState ==
    PageServed =>
        LET page == call.ret.value
        IN  /\ Len(page.customers) <= page.pagination.totalItems
            /\ page.pagination.totalItems = LoadedMatches
            /\ Len(page.customers) = Min(call.args.limit, LoadedMatches)

\* what holds: a page never has more records than itemsPerPage, nor more
\* than the loaded collection has matches
C30_PageWithinSizeAndLoad ==
    PageServed =>
        /\ Len(call.ret.value.customers) <= call.args.limit
        /\ Len(call.ret.value.customers) <= LoadedMatches
        /\ call.ret.value.pagination.totalItems <= LoadedMatches

\* the count ran after deleteMany and the find after insertMany: totalItems
\* is 0 and two records are returned
C30_Witness ==
    /\ PageServed
    /\ call.ret.value.pagination.totalItems = 0
    /\ Len(call.ret.value.customers) = 2

\* the count ran before deleteMany and the find after it: totalItems is 2 and
\* the page is empty
C30_EmptiedWitness ==
    /\ PageServed
    /\ call.ret.value.pagination.totalItems = 2
    /\ call.ret.value.customers = <<>>
    /\ call.args.minQ4Revenue = 0

====
